---- MODULE Spec2Model ----
(***************************************************************************)
(* Risk assessment pipeline of src/risk_assessment: severity mapping,      *)
(* clause scoring (RiskScorer), document scoring and aggregation           *)
(* (DocumentAggregator), the scanner (FastScanner), the external analyzer  *)
(* wrapper (AIAnalyzer) and the orchestrator                               *)
(* (RiskAssessmentEngine.analyze_document) with its progress callbacks.    *)
(*                                                                         *)
(* Numbers.  Keyword weights and context multipliers are kept in tenths    *)
(* (3.0 is 30, 0.5 is 5).  Scores that the code holds as floats are kept   *)
(* as exact fixed-point integers; the only irrational term, the factor     *)
(* 1 - e^(-0.15 n) of _calculate_base_score, is tabulated to four          *)
(* decimals.  int(round(x)) is Python's round-half-to-even.                *)
(***************************************************************************)
EXTENDS Integers, Sequences, FiniteSets, TLC

VARIABLES
    \* ---- SeverityLevel.from_score, one call ----
    score_in,            \* the score handed to from_score
    severity_out,        \* NoSeverity or the SeverityLevel returned
    \* ---- RiskScorer.calculate_score, one call and one re-call ----
    pc_score,            \* "input" | "scored" | "rescored"
    clause_text,         \* [words, phrases]: what the scorer reads of the text
    keyword_matches,     \* sequence of KeywordMatch weights (tenths)
    context_multiplier,  \* the argument, in tenths, not yet clamped
    ai_score,            \* None or Some(external score)
    scored,              \* [score, factors] returned by calculate_score
    prior,               \* the [score, factors] of the clause before a phrase was appended
    appended,            \* "none" | "cap" | an extreme phrase | "multiplier"
    \* ---- DocumentAggregator.aggregate and its exports ----
    pc_doc,              \* "collect" | "scored" | "rescored" | "aggregated" | "raised" | "exported" | "recommended"
    clause_risks,        \* the list of ClauseRisk handed to aggregate
    document_score,      \* None or Some(calculate_document_score of their scores)
    document_risk,       \* None or Some(DocumentRisk returned)
    json_out,            \* None or Some(dict to_json returns)
    markdown_out,        \* None or Some(sections to_markdown_report emits)
    recommendations_out, \* None or Some(list generate_recommendations returns)
    rescored_from,       \* None or Some([scores, document_score] before one score was raised)
    \* ---- RiskAssessmentEngine.analyze_document ----
    pc,                  \* position in analyze_document
    engine,              \* [use_ai, parallel_analysis]
    context,             \* AnalysisContext: [contract_value]
    document,            \* [sections, blocks]: the text as the segmenter sees it
    quick_scan,          \* <<>> or the QuickScanResult of scan_document
    clauses,             \* result of _extract_clauses
    pending,             \* parallel path: indices of futures not yet completed
    outcomes,            \* what the external analyzer did for each clause index
    results,             \* clause_risks of the run, in completion order
    summary_outcome,     \* "none" | "reply" | "fallback" | "raised"
    ai_summary,          \* None or Some(keys of the summary dict)
    returned,            \* None or Some(DocumentRisk analyze_document returns)
    analyzer_did,        \* what the external analyzer was asked and did, per clause index
    progress_log,        \* the calls made on the ProgressCallback, in order
    \* ---- FastScanner.scan_document and scan_clause, one call ----
    pc_scan,             \* "text" | "document_scanned" | "clause_scanned"
    scan_text,           \* the text scanned, as a block
    scan_out,            \* None or Some(QuickScanResult or ClauseScanResult)
    \* ---- RiskScorer.determine_context_multiplier, one call ----
    pc_context,          \* "input" | "determined"
    assessment_in,       \* None or Some(the words the ai_assessment text is made of)
    clause_type_in,      \* the clause_type argument
    multiplier_out       \* None or Some(multiplier returned, in tenths)

vars_severity == <<score_in, severity_out>>
vars_score == <<pc_score, clause_text, keyword_matches, context_multiplier,
                ai_score, scored, prior, appended>>
vars_doc == <<pc_doc, clause_risks, document_score, document_risk, json_out,
              markdown_out, recommendations_out, rescored_from>>
vars_engine == <<pc, engine, context, document, quick_scan, clauses, pending,
                 outcomes, results, summary_outcome, ai_summary, returned,
                 analyzer_did, progress_log>>
vars_scan == <<pc_scan, scan_text, scan_out>>
vars_context == <<pc_context, assessment_in, clause_type_in, multiplier_out>>
vars == <<vars_severity, vars_score, vars_doc, vars_engine, vars_scan,
          vars_context>>

\* Optional values: None is the empty sequence, a value v is <<v>>
None == <<>>
Some(v) == <<v>>
NoSeverity == "none"

(***************************************************************************)
(* models.py                                                               *)
(***************************************************************************)
SeverityLevel == {"LOW", "MEDIUM", "HIGH", "CRITICAL"}

RiskCategory == {"financial", "legal_liability", "termination",
                 "intellectual_property", "confidentiality",
                 "dispute_resolution", "compliance", "operational", "unknown"}

from_score_strict(score) ==
    IF score < 30 THEN "LOW"
    ELSE IF score < 60 THEN "MEDIUM"
    ELSE IF score < 85 THEN "HIGH"
    ELSE "CRITICAL"

\* SeverityLevel.from_score
from_score(score) ==
    IF score <= 30 THEN "LOW"
    ELSE IF score <= 60 THEN "MEDIUM"
    ELSE IF score <= 85 THEN "HIGH"
    ELSE "CRITICAL"

\* RiskScorer.get_severity_from_score
get_severity_from_score(score) == from_score(score)

(***************************************************************************)
(* Arithmetic helpers                                                      *)
(***************************************************************************)
Min(a, b) == IF a <= b THEN a ELSE b
Max(a, b) == IF a >= b THEN a ELSE b

\* Python's round(): nearest integer, ties to the even one.  den > 0.
RoundHalfEven(num, den) ==
    LET q == num \div den
        r == num % den
    IN  IF 2 * r > den THEN q + 1
        ELSE IF 2 * r < den THEN q
        ELSE IF q % 2 = 0 THEN q ELSE q + 1

RECURSIVE SumSeq(_)
SumSeq(s) == IF s = <<>> THEN 0 ELSE Head(s) + SumSeq(Tail(s))

RECURSIVE MaxSeq(_)
MaxSeq(s) == IF Len(s) = 1 THEN s[1] ELSE Max(Head(s), MaxSeq(Tail(s)))

RECURSIVE MinSeq(_)
MinSeq(s) == IF Len(s) = 1 THEN s[1] ELSE Min(Head(s), MinSeq(Tail(s)))

(***************************************************************************)
(* risk_scorer.py: RiskScorer                                              *)
(*                                                                         *)
(* A clause text is the record [words, phrases]: words is                  *)
(* len(text.split()), phrases is the set of patterns of the scorer's       *)
(* lists that p.search(text) finds.  "$amount" and "N times" stand for     *)
(* the two regular expressions of CAP_INDICATORS.                          *)
(***************************************************************************)
POSITIVE_QUALIFIERS ==
    {"reasonable", "reasonably", "good faith", "mutual", "mutually",
     "reciprocal", "balanced", "fair", "proportionate", "customary",
     "standard", "industry standard", "commercially reasonable"}

CAP_INDICATORS ==
    {"capped at", "not to exceed", "maximum", "cap of", "limited to",
     "up to", "ceiling", "no more than", "aggregate limit",
     "$amount", "N times"}

MUTUAL_LANGUAGE ==
    {"mutual", "mutually", "reciprocal", "both parties", "each party",
     "either party", "the parties", "jointly", "together"}

STANDARD_TERMS ==
    {"net-30", "net 30", "net-60", "30 days", "60 days",
     "force majeure", "act of god", "commercially reasonable efforts",
     "material breach", "cure period", "good standing"}

OBLIGATION_MARKERS ==
    {"shall", "must", "will", "agrees to", "undertakes to",
     "obligated to", "required to", "bound to", "warranted"}

EXTREME_LANGUAGE ==
    {"unlimited", "without limit", "without limitation", "no cap",
     "sole discretion", "absolute", "irrevocable", "perpetual",
     "unconditional", "in any event", "under any circumstances"}

ONE_SIDED_MARKERS ==
    {"at its option", "in its sole judgment", "without recourse",
     "waives all rights", "releases all claims", "holds harmless"}

\* sum(1 for p in patterns if p.search(text))
PatternCount(text, patterns) == Cardinality(text.phrases \cap patterns)

\* 10000 * (1 - e^(-0.15 n)), rounded; it tends to 10000
CountFactor(n) ==
    CASE n = 0 -> 0
      [] n = 1 -> 1393
      [] n = 2 -> 2592
      [] n = 3 -> 3624
      [] n = 4 -> 4512
      [] n = 5 -> 5276
      [] n = 6 -> 5934
      [] n = 7 -> 6501
      [] n = 8 -> 6988
      [] n = 9 -> 7408
      [] n = 10 -> 7769
      [] OTHER -> 8080

\* Fixed point of the additive terms: weights are tenths, CountFactor is 1e4
Scale == 10 * 10000

\* RiskScorer._calculate_base_score, times Scale
_calculate_base_score(kms) ==
    IF kms = <<>> THEN 0
    ELSE Min(50 * Scale, SumSeq(kms) * 8 * CountFactor(Len(kms)))

\* RiskScorer._calculate_length_modifier
_calculate_length_modifier(text) ==
    IF text.words < 50 THEN 0
    ELSE IF text.words < 100 THEN 3
    ELSE IF text.words < 200 THEN 5
    ELSE IF text.words < 400 THEN 8
    ELSE 10

\* RiskScorer._calculate_obligation_modifier
_calculate_obligation_modifier(text) ==
    LET count == PatternCount(text, OBLIGATION_MARKERS)
    IN  IF count <= 1 THEN 0
        ELSE IF count <= 3 THEN 5
        ELSE IF count <= 5 THEN 10
        ELSE 15

_calculate_extreme_modifier_negated(text) ==
    LET count == PatternCount(text, EXTREME_LANGUAGE)
    IN  IF count = 0 THEN 0
        ELSE IF count = 1 THEN -8
        ELSE IF count = 2 THEN -15
        ELSE -20

\* RiskScorer._calculate_extreme_modifier
_calculate_extreme_modifier(text) ==
    LET count == PatternCount(text, EXTREME_LANGUAGE)
    IN  IF count = 0 THEN 0
        ELSE IF count = 1 THEN 8
        ELSE IF count = 2 THEN 15
        ELSE 20

\* RiskScorer._calculate_one_sided_modifier
_calculate_one_sided_modifier(text) ==
    LET count == PatternCount(text, ONE_SIDED_MARKERS)
    IN  IF count = 0 THEN 0
        ELSE IF count = 1 THEN 7
        ELSE 15

\* RiskScorer._calculate_qualifier_modifier
_calculate_qualifier_modifier(text) ==
    LET count == PatternCount(text, POSITIVE_QUALIFIERS)
    IN  IF count = 0 THEN 0
        ELSE IF count = 1 THEN -3
        ELSE IF count = 2 THEN -6
        ELSE -10

\* RiskScorer._calculate_cap_modifier
_calculate_cap_modifier(text) ==
    LET count == PatternCount(text, CAP_INDICATORS)
    IN  IF count = 0 THEN 0
        ELSE IF count = 1 THEN -8
        ELSE IF count = 2 THEN -12
        ELSE -15

\* RiskScorer._calculate_mutual_modifier
_calculate_mutual_modifier(text) ==
    LET count == PatternCount(text, MUTUAL_LANGUAGE)
    IN  IF count = 0 THEN 0
        ELSE IF count = 1 THEN -4
        ELSE IF count = 2 THEN -7
        ELSE -10

\* RiskScorer._calculate_standard_modifier
_calculate_standard_modifier(text) ==
    LET count == PatternCount(text, STANDARD_TERMS)
    IN  IF count = 0 THEN 0
        ELSE IF count = 1 THEN -4
        ELSE IF count = 2 THEN -7
        ELSE -10

\* max(0.5, min(2.0, context_multiplier)), in tenths
ClampMultiplier(m) == Max(5, Min(20, m))

\* the clamp without its lower bound
ClampScoreNoFloor(x) == Min(100, x)

\* max(0, min(100, int(round(final_score))))
ClampScore(x) == Max(0, Min(100, x))

\* pre_context_score of calculate_score, times Scale
PreContextScore(text, kms) ==
    _calculate_base_score(kms)
    + Scale * ( _calculate_length_modifier(text)
              + _calculate_obligation_modifier(text)
              + _calculate_extreme_modifier(text)
              + _calculate_one_sided_modifier(text)
              + _calculate_qualifier_modifier(text)
              + _calculate_cap_modifier(text)
              + _calculate_mutual_modifier(text)
              + _calculate_standard_modifier(text) )

\* RiskScorer.calculate_score: (final_score, factors)
calculate_score(text, kms, mult, ai) ==
    LET multiplier == ClampMultiplier(mult)
        \* contextualized_score times 10 * Scale
        contextualized == PreContextScore(text, kms) * multiplier
        \* final_score: ai_score * 0.6 + contextualized_score * 0.4, or
        \* contextualized_score alone
        final == IF ai # None
                 THEN RoundHalfEven(ai[1] * 6 * 10 * Scale + contextualized * 4,
                                    100 * Scale)
                 ELSE RoundHalfEven(contextualized, 10 * Scale)
        final_score == ClampScore(final)
    IN  [score |-> final_score,
         factors |->
           [base_keyword_score |-> _calculate_base_score(kms),
            clause_length_modifier |-> _calculate_length_modifier(text),
            obligation_count_modifier |-> _calculate_obligation_modifier(text),
            qualifier_modifier |-> _calculate_qualifier_modifier(text),
            cap_modifier |-> _calculate_cap_modifier(text),
            mutual_language_modifier |-> _calculate_mutual_modifier(text),
            standard_term_modifier |-> _calculate_standard_modifier(text),
            context_multiplier |-> multiplier,
            final_score |-> final_score]]

\* RiskScorer.calculate_confidence
calculate_confidence(kms, text, ai_analyzed) ==
    LET matches == IF Len(kms) >= 3 THEN 15
                   ELSE IF Len(kms) >= 1 THEN 8 ELSE 0
        high_weight_count == Cardinality({i \in 1..Len(kms) : kms[i] >= 25})
        base_confidence ==
            50 + matches + Min(15, high_weight_count * 5)
            + (IF ai_analyzed THEN 15 ELSE 0)
            + (IF text.words >= 50 THEN 5 ELSE 0)
            + (IF PatternCount(text, EXTREME_LANGUAGE) > 0 THEN 10 ELSE 0)
    IN  Min(100, Max(20, base_confidence))

\* The bracket weight of calculate_document_score, doubled (3.0 is 6)
BracketWeightGt(score) ==
    IF score > 85 THEN 6
    ELSE IF score > 60 THEN 4
    ELSE IF score > 30 THEN 2
    ELSE 1

\* a bracket more: the scores from 45 to 59 weigh 1.5
BracketWeightSplit(score) ==
    IF score >= 85 THEN 6
    ELSE IF score >= 60 THEN 4
    ELSE IF score >= 45 THEN 3
    ELSE IF score >= 30 THEN 2
    ELSE 1

BracketWeight(score) ==
    IF score >= 85 THEN 6
    ELSE IF score >= 60 THEN 4
    ELSE IF score >= 30 THEN 2
    ELSE 1

BracketWeights(scores) == [i \in 1..Len(scores) |-> BracketWeight(scores[i])]

WeightedScores(scores) ==
    [i \in 1..Len(scores) |-> scores[i] * BracketWeight(scores[i])]

\* the plain mean of the scores: no bracket weights, no share for the maximum
document_score_plain_mean(clause_scores) ==
    IF clause_scores = <<>> THEN 0
    ELSE Min(100, RoundHalfEven(SumSeq(clause_scores), Len(clause_scores)))

\* RiskScorer.calculate_document_score
\*   final = 0.6 * weighted_sum / total_weight + 0.4 * max_score
calculate_document_score(clause_scores) ==
    IF clause_scores = <<>> THEN 0
    ELSE LET total_weight == SumSeq(BracketWeights(clause_scores))
             weighted_sum == SumSeq(WeightedScores(clause_scores))
             max_score == MaxSeq(clause_scores)
         IN  Min(100, RoundHalfEven(6 * weighted_sum + 4 * max_score * total_weight,
                                    10 * total_weight))

(***************************************************************************)
(* Inputs of the scorer                                                    *)
(***************************************************************************)
\* Scores are 0..100 (models.py, ClauseRisk.score)
MaxScore == 100

\* Most scorer phrases a sampled clause text holds
MaxPhrases == 3

\* Most keyword matches handed to calculate_score
MaxMatches == 2

\* Word counts on both sides of the thresholds of _calculate_length_modifier
WordSamples == {20, 47, 49, 400}

\* Phrases the sampled texts are built from; none contains another
Vocabulary ==
    {"shall", "must", "unlimited", "irrevocable", "perpetual", "at its option",
     "mutual", "capped at", "$amount", "maximum", "net 30"}

ClauseTexts ==
    {[words |-> w, phrases |-> ph] :
        w \in WordSamples,
        ph \in {x \in SUBSET Vocabulary : Cardinality(x) <= MaxPhrases}}

\* KeywordEntry weights are 0.5 .. 3.0 (keyword_library.py)
WeightSamples == {30}

MatchLists == UNION {[1..n -> WeightSamples] : n \in 0..MaxMatches}

\* Below 0.5, inside, above 2.0
MultiplierSamples == {3, 10, 25}

\* Absent, negative, in range, above 100
AiScoreSamples == {None, Some(-10), Some(60), Some(150)}

\* scored and prior before calculate_score has run (pc_score tells)
NoResult == [score |-> 0, factors |-> <<>>]

\* "capped at $100,000": three words, two CAP_INDICATORS, no library keyword
CapPhrase ==
    [name |-> "cap", words |-> 3, phrases |-> {"capped at", "$amount"},
     matches |-> <<>>]

\* "unlimited" / "irrevocable": one word, one EXTREME_LANGUAGE pattern; the
\* library holds KeywordEntry("irrevocable", 3.0) and no bare "unlimited"
ExtremePhrase(p) ==
    [name |-> p, words |-> 1, phrases |-> {p},
     matches |-> IF p = "irrevocable" THEN <<30>> ELSE <<>>]

ExtremePhrases == {"unlimited", "irrevocable"}

\* text + " " + phrase: the words add up, the patterns found are the union
AppendPhrase(text, ph) ==
    [words |-> text.words + ph.words, phrases |-> text.phrases \cup ph.phrases]

(***************************************************************************)
(* Idle values: each specification drives its own variables                *)
(***************************************************************************)
IdleSeverity == score_in = 0 /\ severity_out = NoSeverity

IdleScore ==
    /\ pc_score = "idle"
    /\ clause_text = [words |-> 0, phrases |-> {}]
    /\ keyword_matches = <<>>
    /\ context_multiplier = 10
    /\ ai_score = None
    /\ scored = NoResult
    /\ prior = NoResult
    /\ appended = "none"

IdleDoc ==
    /\ pc_doc = "idle"
    /\ clause_risks = <<>>
    /\ document_score = None
    /\ document_risk = None
    /\ json_out = None
    /\ markdown_out = None
    /\ recommendations_out = None
    /\ rescored_from = None

IdleEngine ==
    /\ pc = "idle"
    /\ engine = [use_ai |-> FALSE, parallel_analysis |-> FALSE]
    /\ context = [contract_value |-> "none"]
    /\ document = [sections |-> FALSE, blocks |-> <<>>]
    /\ quick_scan = <<>>
    /\ clauses = <<>>
    /\ pending = {}
    /\ outcomes = <<>>
    /\ results = <<>>
    /\ summary_outcome = "none"
    /\ ai_summary = None
    /\ returned = None
    /\ analyzer_did = <<>>
    /\ progress_log = <<>>

IdleScan ==
    /\ pc_scan = "idle"
    /\ scan_text = [chars |-> 0, text |-> [words |-> 0, phrases |-> {}],
                    keywords |-> <<>>, type_hints |-> <<>>, patterns |-> 0]
    /\ scan_out = None

IdleContext ==
    /\ pc_context = "idle"
    /\ assessment_in = None
    /\ clause_type_in = "general"
    /\ multiplier_out = None

(***************************************************************************)
(* SpecSeverity: one call of from_score / get_severity_from_score          *)
(***************************************************************************)
InitSeverity ==
    /\ score_in \in 0..MaxScore
    /\ severity_out = NoSeverity
    /\ IdleScore /\ IdleDoc /\ IdleEngine /\ IdleScan /\ IdleContext

FromScore ==
    /\ severity_out = NoSeverity
    /\ severity_out' = from_score(score_in)
    /\ UNCHANGED <<score_in, vars_score, vars_doc, vars_engine, vars_scan, vars_context>>

GetSeverityFromScore ==
    /\ severity_out = NoSeverity
    /\ severity_out' = get_severity_from_score(score_in)
    /\ UNCHANGED <<score_in, vars_score, vars_doc, vars_engine, vars_scan, vars_context>>

NextSeverity == FromScore \/ GetSeverityFromScore

SpecSeverity == InitSeverity /\ [][NextSeverity]_vars

(***************************************************************************)
(* SpecScore: calculate_score on a clause, then on the same clause with a  *)
(* phrase appended (same context_multiplier, same ai_score, keyword        *)
(* matches re-scanned)                                                     *)
(***************************************************************************)
InitScore ==
    /\ pc_score = "input"
    /\ clause_text \in ClauseTexts
    /\ keyword_matches \in MatchLists
    /\ context_multiplier \in MultiplierSamples
    /\ ai_score \in AiScoreSamples
    /\ scored = NoResult
    /\ prior = NoResult
    /\ appended = "none"
    /\ IdleSeverity /\ IdleDoc /\ IdleEngine /\ IdleScan /\ IdleContext

CalculateScore ==
    /\ pc_score = "input"
    /\ scored' = calculate_score(clause_text, keyword_matches,
                                 context_multiplier, ai_score)
    /\ pc_score' = "scored"
    /\ UNCHANGED <<clause_text, keyword_matches, context_multiplier, ai_score,
                   prior, appended>>
    /\ UNCHANGED <<vars_severity, vars_doc, vars_engine, vars_scan, vars_context>>

Rescore(ph) ==
    /\ pc_score = "scored"
    /\ prior' = scored
    /\ clause_text' = AppendPhrase(clause_text, ph)
    /\ keyword_matches' = keyword_matches \o ph.matches
    /\ scored' = calculate_score(clause_text', keyword_matches',
                                 context_multiplier, ai_score)
    /\ appended' = ph.name
    /\ pc_score' = "rescored"
    /\ UNCHANGED <<context_multiplier, ai_score>>
    /\ UNCHANGED <<vars_severity, vars_doc, vars_engine, vars_scan, vars_context>>

AppendCapPhrase == Rescore(CapPhrase)

AppendExtremePhrase == \E p \in ExtremePhrases : Rescore(ExtremePhrase(p))

\* the same clause is scored again with a larger context_multiplier
RaiseContextMultiplier ==
    /\ pc_score = "scored"
    /\ prior' = scored
    /\ \E larger \in MultiplierSamples :
           /\ larger > context_multiplier
           /\ context_multiplier' = larger
    /\ scored' = calculate_score(clause_text, keyword_matches,
                                 context_multiplier', ai_score)
    /\ appended' = "multiplier"
    /\ pc_score' = "rescored"
    /\ UNCHANGED <<clause_text, keyword_matches, ai_score>>
    /\ UNCHANGED <<vars_severity, vars_doc, vars_engine, vars_scan, vars_context>>

NextScore ==
    \/ CalculateScore
    \/ AppendCapPhrase
    \/ AppendExtremePhrase
    \/ RaiseContextMultiplier

SpecScore == InitScore /\ [][NextScore]_vars

(***************************************************************************)
(* Claims on the severity mapping and the clause scorer                    *)
(***************************************************************************)
\* C1: for every score s in 0..100, from_score(s) and
\* get_severity_from_score(s) are LOW exactly when s <= 30, MEDIUM exactly
\* when 31 <= s <= 60, HIGH exactly when 61 <= s <= 85 and CRITICAL exactly
\* when s >= 86.
C1_SeverityBoundaries ==
    severity_out # NoSeverity =>
        /\ (severity_out = "LOW") <=> (score_in <= 30)
        /\ (severity_out = "MEDIUM") <=> (31 <= score_in /\ score_in <= 60)
        /\ (severity_out = "HIGH") <=> (61 <= score_in /\ score_in <= 85)
        /\ (severity_out = "CRITICAL") <=> (score_in >= 86)

C1_Witness == score_in = 30 /\ severity_out = "LOW"

\* C2: whatever the text, the keyword matches, the context_multiplier (also
\* outside 0.5..2.0) and the ai_score (absent, negative, above 100),
\* calculate_score returns a score in 0..100 and records a context
\* multiplier in [0.5, 2.0].
C2_ScoreInRange ==
    pc_score \in {"scored", "rescored"} =>
        /\ scored.score \in 0..100
        /\ scored.factors.context_multiplier \in 5..20

C2_Witness ==
    /\ pc_score = "scored"
    /\ ai_score = Some(-10)
    /\ context_multiplier = 25
    /\ PreContextScore(clause_text, keyword_matches) < 0
    /\ scored.score = 0
    /\ scored.factors.context_multiplier = 20

\* C6: appending the cap phrase "capped at $100,000" to an otherwise
\* identical clause never makes calculate_score return a higher score.
C6_CapPhraseNeverRaises ==
    (pc_score = "rescored" /\ appended = "cap") => scored.score <= prior.score

\* C7: appending an extreme phrase ("unlimited", "irrevocable") to an
\* otherwise identical clause never makes calculate_score return a lower
\* score.
C7_ExtremePhraseNeverLowers ==
    (pc_score = "rescored" /\ appended \in ExtremePhrases) =>
        scored.score >= prior.score

C7_Witness ==
    /\ pc_score = "rescored"
    /\ appended = "unlimited"
    /\ ai_score # None
    /\ scored.score > prior.score

(***************************************************************************)
(* document_aggregator.py                                                  *)
(*                                                                         *)
(* A ClauseRisk is a record of the fields the aggregator reads:            *)
(*   clause_id, clause_type, category, severity, score, confidence,        *)
(*   red_flags, mitigating_factors, ai_analyzed.                           *)
(* clause_type, red_flags and mitigating_factors are Optional: the         *)
(* external reply they are copied from may hold null for them.  Texts      *)
(* built for the reader (issue, action, recommendation) are kept as tags.  *)
(* The timestamp and the processing time of the metadata are left out.     *)
(***************************************************************************)
RECURSIVE InsertByScore(_, _)
\* place r after every element whose score is >= r.score
InsertByScore(r, s) ==
    IF s = <<>> THEN <<r>>
    ELSE IF Head(s).score >= r.score THEN <<Head(s)>> \o InsertByScore(r, Tail(s))
    ELSE <<r>> \o s

RECURSIVE SortedByScoreDesc(_)
\* sorted(clause_risks, key=lambda r: r.score, reverse=True): stable
SortedByScoreDesc(s) ==
    IF s = <<>> THEN <<>>
    ELSE InsertByScore(s[Len(s)], SortedByScoreDesc(SubSeq(s, 1, Len(s) - 1)))

\* s[:n]
Take(s, n) == SubSeq(s, 1, Min(n, Len(s)))

\* [f(x) for x in s]
Scores(risks) == [i \in 1..Len(risks) |-> risks[i].score]

\* [r.clause_id for r in clause_risks if keep(r)]
ClauseIds(s) == [i \in 1..Len(s) |-> s[i].clause_id]

\* sum(1 for r in clause_risks if r.severity == level)
CountSeverity(risks, level) ==
    Cardinality({i \in 1..Len(risks) : risks[i].severity = level})

\* RiskDistribution(): every count defaults to 0
RiskDistribution == [critical |-> 0, high |-> 0, medium |-> 0, low |-> 0]

\* the recommendation of _calculate_risk_summary, by its opening words
SummaryRecommendation(overall_level) ==
    CASE overall_level = "CRITICAL" -> "DO NOT SIGN without significant negotiation"
      [] overall_level = "HIGH" -> "Review high-risk clauses carefully before signing"
      [] overall_level = "MEDIUM" -> "Generally acceptable with some concerns"
      [] OTHER -> "Contract appears balanced"

\* DocumentAggregator._calculate_risk_summary
_calculate_risk_summary(risks) ==
    LET overall_score == calculate_document_score(Scores(risks))
        overall_level == from_score(overall_score)
        distribution ==
            [critical |-> CountSeverity(risks, "CRITICAL"),
             high |-> CountSeverity(risks, "HIGH"),
             medium |-> CountSeverity(risks, "MEDIUM"),
             low |-> CountSeverity(risks, "LOW")]
        high_risk == distribution.critical + distribution.high
        n == Len(risks)
        favorability ==
            IF 10 * high_risk > 5 * n THEN "heavily_favors_other_party"
            ELSE IF 10 * high_risk > 3 * n THEN "slightly_unfavorable"
            ELSE IF 10 * high_risk > 1 * n THEN "balanced"
            ELSE "favorable"
    IN  [overall_score |-> overall_score,
         overall_level |-> overall_level,
         distribution |-> distribution,
         favorability |-> favorability,
         recommendation |-> SummaryRecommendation(overall_level)]

\* [x for x in s if keep[x]]: SelectSeq with the test given as a set of kept positions
RECURSIVE Filter(_, _)
Filter(s, kept) ==
    IF s = <<>> THEN <<>>
    ELSE LET rest == Filter(SubSeq(s, 1, Len(s) - 1), kept)
         IN  IF Len(s) \in kept THEN Append(rest, s[Len(s)]) ELSE rest

\* str.title() on the clause types the pipeline produces
Title(clause_type) ==
    CASE clause_type = "liability" -> "Liability"
      [] clause_type = "termination" -> "Termination"
      [] clause_type = "payment" -> "Payment"
      [] clause_type = "general" -> "General"
      [] clause_type = "unknown" -> "Unknown"
      [] clause_type = "liability limitation" -> "Liability Limitation"
      [] clause_type = "legal_liability" -> "Legal_Liability"
      [] clause_type = "legal liability" -> "Legal Liability"
      [] clause_type = "general clause" -> "General Clause"
      [] OTHER -> clause_type

\* the first ten clauses as they come, the sort by score left out
_get_top_risks_unsorted(risks) ==
    LET first == Take(risks, 10)
        ranked == [i \in 1..Len(first) |->
                     [rank |-> i,
                      clause_id |-> first[i].clause_id,
                      clause_reference |->
                          IF first[i].clause_type = None THEN None
                          ELSE Some(<<Title(first[i].clause_type[1]), first[i].clause_id>>),
                      score |-> first[i].score]]
    IN  Filter(ranked, {i \in 1..Len(ranked) : ranked[i].score >= 30})

\* DocumentAggregator._get_top_risks, limit = 10.  The filter runs before the
\* element is built, so clause_type.title() is reached only when score >= 30.
_get_top_risks(risks) ==
    LET sorted_risks == Take(SortedByScoreDesc(risks), 10)
        ranked == [i \in 1..Len(sorted_risks) |->
                     [rank |-> i,
                      clause_id |-> sorted_risks[i].clause_id,
                      clause_reference |->
                          IF sorted_risks[i].clause_type = None THEN None
                          ELSE Some(<<Title(sorted_risks[i].clause_type[1]),
                                      sorted_risks[i].clause_id>>),
                      score |-> sorted_risks[i].score]]
    IN  Filter(ranked, {i \in 1..Len(ranked) : ranked[i].score >= 30})

\* risk.clause_type.title() on None: AttributeError out of _get_top_risks
_get_top_risks_raises(risks) ==
    \E i \in 1..Len(_get_top_risks(risks)) :
        _get_top_risks(risks)[i].clause_reference = None

\* the keys of a dict filled while iterating over clause_risks, in insertion order
RECURSIVE CategoryOrder(_)
CategoryOrder(risks) ==
    IF risks = <<>> THEN <<>>
    ELSE LET rest == CategoryOrder(SubSeq(risks, 1, Len(risks) - 1))
             c == risks[Len(risks)].category
         IN  IF \E i \in 1..Len(rest) : rest[i] = c THEN rest ELSE Append(rest, c)

\* max(keys, key=count): the first key, in insertion order, with the largest count
RECURSIVE FirstMax(_, _)
FirstMax(keys, count) ==
    IF Len(keys) = 1 THEN keys[1]
    ELSE LET best == FirstMax(SubSeq(keys, 1, Len(keys) - 1), count)
         IN  IF count[keys[Len(keys)]] > count[best] THEN keys[Len(keys)] ELSE best

\* the clauses of one category, in document order
OfCategory(risks, c) == Filter(risks, {i \in 1..Len(risks) : risks[i].category = c})

\* DocumentAggregator._calculate_category_summaries; average_score is the
\* fraction total / count
_calculate_category_summaries(risks) ==
    [c \in {risks[i].category : i \in 1..Len(risks)} |->
        [category |-> c,
         count |-> Len(OfCategory(risks, c)),
         total |-> SumSeq(Scores(OfCategory(risks, c))),
         highest_score |-> MaxSeq(Scores(OfCategory(risks, c))),
         clauses |-> ClauseIds(OfCategory(risks, c))]]

\* x in s, for a list s
InSeq(x, s) == \E i \in 1..Len(s) : s[i] = x

\* sum(1 for r in clause_risks if r.score >= 60 and r.category == c)
HighRiskCount(risks, c) ==
    Cardinality({i \in 1..Len(risks) : risks[i].category = c /\ risks[i].score >= 60})

\* `flag in r.red_flags` / `factor in r.mitigating_factors` on None: TypeError
_analyze_patterns_raises(risks) ==
    \E i \in 1..Len(risks) :
        risks[i].red_flags = None \/ risks[i].mitigating_factors = None

\* DocumentAggregator._analyze_patterns (defined where it does not raise)
_analyze_patterns(risks) ==
    LET keys == CategoryOrder(risks)
        category_counts == [c \in RiskCategory |-> Len(OfCategory(risks, c))]
        high_keys == CategoryOrder(Filter(risks, {i \in 1..Len(risks) : risks[i].score >= 60}))
        high_risk_categories == [c \in RiskCategory |-> HighRiskCount(risks, c)]
        dominant == IF keys # <<>> THEN FirstMax(keys, category_counts) ELSE "unknown"
        multiple ==
            IF high_keys # <<>>
               /\ high_risk_categories[FirstMax(high_keys, high_risk_categories)] >= 2
            THEN <<[pattern |-> "Multiple high-risk clauses detected",
                    category |-> FirstMax(high_keys, high_risk_categories)]>>
            ELSE <<>>
        one_sided_count ==
            Cardinality({i \in 1..Len(risks) :
                \E flag \in {"one-sided", "unilateral", "sole discretion"} :
                    InSeq(flag, risks[i].red_flags[1])})
        mutual_count ==
            Cardinality({i \in 1..Len(risks) :
                \E factor \in {"mutual", "reciprocal", "balanced"} :
                    InSeq(factor, risks[i].mitigating_factors[1])})
        language ==
            IF one_sided_count > mutual_count * 2
            THEN <<[pattern |-> "Contract language is predominantly one-sided",
                    category |-> "unknown"]>>
            ELSE IF one_sided_count > mutual_count
            THEN <<[pattern |-> "Some clauses favor the other party",
                    category |-> "unknown"]>>
            ELSE IF mutual_count > one_sided_count
            THEN <<[pattern |-> "Contract contains balanced, mutual obligations",
                    category |-> "unknown"]>>
            ELSE <<>>
        favorability ==
            IF one_sided_count > mutual_count * 2 THEN "heavily_favors_other_party"
            ELSE IF one_sided_count > mutual_count THEN "slightly_unfavorable"
            ELSE "balanced"
        liability_risks == OfCategory(risks, "legal_liability")
        liability ==
            IF Len(liability_risks) >= 3
               /\ \A i \in 1..Len(liability_risks) : liability_risks[i].score >= 60
            THEN <<[pattern |-> "All liability clauses heavily favor the other party",
                    category |-> "legal_liability"]>>
            ELSE <<>>
        term_risks == OfCategory(risks, "termination")
        termination ==
            IF term_risks # <<>>
               /\ \A i \in 1..Len(term_risks) : term_risks[i].score >= 50
            THEN <<[pattern |-> "Termination rights are restricted",
                    category |-> "termination"]>>
            ELSE <<>>
    IN  [patterns |-> multiple \o language \o liability \o termination,
         dominant_category |-> dominant,
         favorability_assessment |-> favorability,
         one_sided_count |-> one_sided_count,
         mutual_count |-> mutual_count]

\* DocumentAggregator._generate_executive_summary: the text of the external
\* summary when it has one, else assessment + statistics + first pattern
_generate_executive_summary(risk_summary, pattern_analysis, summary) ==
    IF summary # None /\ "executive_summary" \in summary[1]
    THEN [source |-> "ai_summary", assessment |-> risk_summary.overall_level,
          statistics |-> risk_summary.distribution, pattern |-> <<>>]
    ELSE [source |-> "generated", assessment |-> risk_summary.overall_level,
          statistics |-> risk_summary.distribution,
          pattern |-> Take(pattern_analysis.patterns, 1)]

\* the band of avg_score = sum(scores) / len(scores) used by
\* _determine_favorability and _generate_market_comparison
AverageBand(risks) ==
    LET total == SumSeq(Scores(risks))
        n == Len(risks)
    IN  IF total >= 70 * n THEN 70
        ELSE IF total >= 50 * n THEN 50
        ELSE IF total >= 30 * n THEN 30
        ELSE 0

\* DocumentAggregator._determine_favorability
_determine_favorability(risks) ==
    CASE AverageBand(risks) = 70 -> "heavily_favors_other_party"
      [] AverageBand(risks) = 50 -> "slightly_unfavorable"
      [] AverageBand(risks) = 30 -> "balanced"
      [] OTHER -> "favorable"

\* DocumentAggregator._generate_market_comparison
_generate_market_comparison(risks, summary) ==
    IF summary # None /\ "comparison_to_market" \in summary[1]
    THEN "ai_summary"
    ELSE CASE AverageBand(risks) = 70 -> "significantly more restrictive"
           [] AverageBand(risks) = 50 -> "somewhat more restrictive"
           [] AverageBand(risks) = 30 -> "roughly in line with market standards"
           [] OTHER -> "favorable terms"

\* every CRITICAL clause, the limit of five left out
MustAddressAll(risks) ==
    LET critical == Filter(risks, {i \in 1..Len(risks) : risks[i].severity = "CRITICAL"})
        top == SortedByScoreDesc(critical)
    IN  [i \in 1..Len(top) |->
            [priority |-> i,
             clause_reference |-> top[i].clause_id,
             urgency |-> "Critical risk requiring immediate attention"]]

\* must_address of aggregate: the five highest CRITICAL clauses
MustAddress(risks) ==
    LET critical == Filter(risks, {i \in 1..Len(risks) : risks[i].severity = "CRITICAL"})
        top == Take(SortedByScoreDesc(critical), 5)
    IN  [i \in 1..Len(top) |->
            [priority |-> i,
             clause_reference |-> top[i].clause_id,
             urgency |-> "Critical risk requiring immediate attention"]]

\* should_negotiate of aggregate
ShouldNegotiate(risks) ==
    ClauseIds(Filter(risks, {i \in 1..Len(risks) : risks[i].severity = "HIGH"}))

\* acceptable of aggregate
AcceptableAsIs(risks) ==
    ClauseIds(Filter(risks, {i \in 1..Len(risks) :
                                risks[i].severity = "LOW" /\ risks[i].score < 25}))

\* deal_breakers of aggregate
DealBreakers(risks) ==
    ClauseIds(Filter(risks, {i \in 1..Len(risks) : risks[i].score >= 90}))

\* set(r.category for r in clause_risks if r.score >= 60)
HighRiskCategories(risks) ==
    {risks[i].category : i \in {j \in 1..Len(risks) : risks[j].score >= 60}}

\* list(high_risk_categories)[:2]: a set has no fixed iteration order, so
\* any two distinct members (or the only member, or none) in any order
CategoryPicks(risks) ==
    LET cats == HighRiskCategories(risks)
        n == Min(2, Cardinality(cats))
    IN  {q \in [1..n -> cats] : \A i, j \in 1..n : i # j => q[i] # q[j]}

\* DocumentAggregator._generate_action_plan; pick is list(high_risk_categories)[:2]
_generate_action_plan(must_address, should_negotiate, pick) ==
    LET critical ==
            IF must_address # <<>>
            THEN <<[item |-> "1. Address critical issue(s) immediately",
                    count |-> Len(must_address),
                    refs |-> [i \in 1..Min(3, Len(must_address)) |->
                                 must_address[i].clause_reference]]>>
            ELSE <<>>
        negotiate ==
            IF should_negotiate # <<>>
            THEN <<[item |-> "2. Negotiate high-risk clause(s) before signing",
                    count |-> Len(should_negotiate), refs |-> <<>>]>>
            ELSE <<>>
        review == [i \in 1..Len(pick) |->
                     [item |-> "3. Review all clauses of the category for balance",
                      count |-> 0, refs |-> <<pick[i]>>]]
        general ==
            <<[item |-> "4. Have legal counsel review before signing",
               count |-> 0, refs |-> <<>>],
              [item |-> "5. Document any agreed changes in writing",
               count |-> 0, refs |-> <<>>]>>
    IN  Take(critical \o negotiate \o review \o general, 5)

\* an empty result that tells the reader nothing: no action plan
_empty_document_risk_no_plan(filename, pages) ==
    [metadata |-> [filename |-> filename, pages |-> pages, clauses_analyzed |-> 0],
     risk_summary |->
         [overall_score |-> 0,
          overall_level |-> "LOW",
          distribution |-> RiskDistribution,
          favorability |-> "unknown",
          recommendation |-> "No clauses found to analyze"],
     executive_summary |->
         [source |-> "empty", assessment |-> "LOW",
          statistics |-> RiskDistribution, pattern |-> <<>>],
     clause_risks |-> <<>>,
     top_risks |-> <<>>,
     category_summaries |-> <<>>,
     must_address_immediately |-> <<>>,
     should_negotiate |-> <<>>,
     acceptable_as_is |-> <<>>,
     deal_breakers |-> <<>>,
     comparison_to_market |-> "Unable to compare - no clauses analyzed",
     overall_favorability |-> "unknown",
     action_plan |-> <<>>]

\* DocumentAggregator._empty_document_risk
_empty_document_risk(filename, pages) ==
    [metadata |-> [filename |-> filename, pages |-> pages, clauses_analyzed |-> 0],
     risk_summary |->
         [overall_score |-> 0,
          overall_level |-> "LOW",
          distribution |-> RiskDistribution,
          favorability |-> "unknown",
          recommendation |-> "No clauses found to analyze"],
     executive_summary |->
         [source |-> "empty", assessment |-> "LOW",
          statistics |-> RiskDistribution, pattern |-> <<>>],
     clause_risks |-> <<>>,
     top_risks |-> <<>>,
     category_summaries |-> <<>>,
     must_address_immediately |-> <<>>,
     should_negotiate |-> <<>>,
     acceptable_as_is |-> <<>>,
     deal_breakers |-> <<>>,
     comparison_to_market |-> "Unable to compare - no clauses analyzed",
     overall_favorability |-> "unknown",
     action_plan |->
         <<[item |-> "Upload a document with identifiable clauses for analysis",
            count |-> 0, refs |-> <<>>]>>]

\* aggregate raises when one of the helpers it calls raises
aggregate_raises(risks) ==
    risks # <<>> /\ (_get_top_risks_raises(risks) \/ _analyze_patterns_raises(risks))

\* DocumentAggregator.aggregate (defined where it does not raise)
aggregate(risks, filename, pages, summary, pick) ==
    IF risks = <<>> THEN _empty_document_risk(filename, pages)
    ELSE LET risk_summary == _calculate_risk_summary(risks)
             pattern_analysis == _analyze_patterns(risks)
         IN  [metadata |-> [filename |-> filename, pages |-> pages,
                            clauses_analyzed |-> Len(risks)],
              risk_summary |-> risk_summary,
              executive_summary |->
                  _generate_executive_summary(risk_summary, pattern_analysis, summary),
              clause_risks |-> risks,
              top_risks |-> _get_top_risks(risks),
              category_summaries |-> _calculate_category_summaries(risks),
              must_address_immediately |-> MustAddress(risks),
              should_negotiate |-> ShouldNegotiate(risks),
              acceptable_as_is |-> AcceptableAsIs(risks),
              deal_breakers |-> DealBreakers(risks),
              comparison_to_market |-> _generate_market_comparison(risks, summary),
              overall_favorability |-> _determine_favorability(risks),
              action_plan |->
                  _generate_action_plan(MustAddress(risks), ShouldNegotiate(risks), pick)]

\* the DocumentRisk under the names of its own fields (dataclasses.asdict)
to_json_asdict(doc) == doc

\* DocumentAggregator.to_json.  avg_score is round(average_score, 1) in
\* tenths (exact while a category holds fewer than 20 clauses).
to_json(doc) ==
    [document_metadata |->
         [filename |-> doc.metadata.filename,
          pages |-> doc.metadata.pages,
          clauses_analyzed |-> doc.metadata.clauses_analyzed],
     risk_summary |->
         [overall_score |-> doc.risk_summary.overall_score,
          overall_level |-> doc.risk_summary.overall_level,
          distribution |->
              [critical |-> doc.risk_summary.distribution.critical,
               high |-> doc.risk_summary.distribution.high,
               medium |-> doc.risk_summary.distribution.medium,
               low |-> doc.risk_summary.distribution.low],
          favorability |-> doc.risk_summary.favorability,
          recommendation |-> doc.risk_summary.recommendation],
     executive_summary |-> doc.executive_summary,
     top_risks |-> doc.top_risks,
     categories |->
         [c \in DOMAIN doc.category_summaries |->
             [count |-> doc.category_summaries[c].count,
              avg_score |-> RoundHalfEven(10 * doc.category_summaries[c].total,
                                          doc.category_summaries[c].count),
              highest |-> doc.category_summaries[c].highest_score]],
     must_address_immediately |->
         [i \in 1..Len(doc.must_address_immediately) |->
             [priority |-> doc.must_address_immediately[i].priority,
              clause |-> doc.must_address_immediately[i].clause_reference,
              urgency |-> doc.must_address_immediately[i].urgency]],
     should_negotiate |-> doc.should_negotiate,
     acceptable_as_is |-> doc.acceptable_as_is,
     deal_breakers |-> doc.deal_breakers,
     overall_favorability |-> doc.overall_favorability,
     comparison_to_market |-> doc.comparison_to_market,
     action_plan |-> doc.action_plan]

\* a report whose header does not name the document
to_markdown_report_unnamed(doc) ==
    <<[section |-> "# Risk Assessment Report", text |-> "",
       entries |-> doc.metadata.clauses_analyzed],
      [section |-> "## Overall Risk", text |-> doc.risk_summary.overall_level,
       entries |-> doc.risk_summary.overall_score],
      [section |-> "## Executive Summary", text |-> "", entries |-> 1],
      [section |-> "## Risk Distribution", text |-> "", entries |-> 4],
      [section |-> "## Action Plan", text |-> "", entries |-> Len(doc.action_plan)]>>

\* DocumentAggregator.to_markdown_report: the sections in the order they
\* are written, each with the value its first lines print after the title
\* (the filename under the header, the level after "Overall Risk:") and the
\* number of entries it lists
to_markdown_report(doc) ==
    LET always(title, shown, n) == <<[section |-> title, text |-> shown, entries |-> n]>>
        when(cond, title, n) == IF cond THEN always(title, "", n) ELSE <<>>
    IN  always("# Risk Assessment Report", doc.metadata.filename,
               doc.metadata.clauses_analyzed)
        \o always("## Overall Risk", doc.risk_summary.overall_level,
                  doc.risk_summary.overall_score)
        \o always("## Executive Summary", "", 1)
        \o always("## Risk Distribution", "", 4)
        \o when(doc.must_address_immediately # <<>>,
                "## Critical Issues (Must Address)", Len(doc.must_address_immediately))
        \o when(doc.top_risks # <<>>, "## Top Risks", Len(Take(doc.top_risks, 5)))
        \o always("## Action Plan", "", Len(doc.action_plan))
        \o when(doc.acceptable_as_is # <<>>,
                "## Acceptable Terms", Len(Take(doc.acceptable_as_is, 10)))

\* DocumentAggregator._determine_urgency
_determine_urgency(risk) ==
    CASE risk.severity = "CRITICAL" -> "MUST address before signing - potential deal-breaker"
      [] risk.severity = "HIGH" -> "Should negotiate before signing"
      [] risk.severity = "MEDIUM" -> "Worth discussing but not critical"
      [] OTHER -> "Low priority - standard clause"

\* the positions 1..n in order
Positions(n) == [i \in 1..n |-> i]

\* DocumentAggregator._generate_action_items: one ActionItem for each clause
\* of score >= 30, by decreasing score; aggregate builds the list from its
\* clause_risks
_generate_action_items(risks) ==
    LET sorted_risks == SortedByScoreDesc(risks)
        emitted == Filter(Positions(Len(sorted_risks)),
                          {i \in 1..Len(sorted_risks) : sorted_risks[i].score >= 30})
    IN  [k \in 1..Len(emitted) |->
            [priority |-> emitted[k],
             clause_reference |-> sorted_risks[emitted[k]].clause_id,
             urgency |-> _determine_urgency(sorted_risks[emitted[k]])]]

\* DocumentAggregator.generate_recommendations: one Recommendation for each
\* clause of score >= 30, by decreasing score, at most 20
generate_recommendations(doc) ==
    LET sorted_risks == SortedByScoreDesc(doc.clause_risks)
        emitted == Filter(Positions(Len(sorted_risks)),
                          {i \in 1..Len(sorted_risks) : sorted_risks[i].score >= 30})
    IN  Take([k \in 1..Len(emitted) |->
                 [priority |-> emitted[k],
                  category |-> sorted_risks[emitted[k]].category,
                  clause_reference |-> sorted_risks[emitted[k]].clause_id]],
             20)

(***************************************************************************)
(* SpecDoc: a list of ClauseRisk is scored (calculate_document_score) or   *)
(* aggregated (aggregate with its default arguments), and the aggregate    *)
(* is exported (to_json, to_markdown_report) or turned into                *)
(* recommendations (generate_recommendations)                              *)
(***************************************************************************)
\* Most clauses in a sampled list
MaxClauses == 3

\* Scores on both sides of the brackets 30 / 60 / 85 and of the buckets
ScoreSamples == {0, 30, 45, 70, 85, 86, 100}

CategorySamples == {"legal_liability", "termination"}

\* A ClauseRisk as _rule_based_clause_analysis builds it for a clause
\* without red flags
RuleBasedRisk(i, score, category) ==
    [clause_id |-> <<"section", i>>,
     clause_type |-> Some("general"),
     category |-> category,
     severity |-> from_score(score),
     score |-> score,
     confidence |-> 50,
     red_flags |-> Some(<<>>),
     mitigating_factors |-> Some(<<>>),
     ai_analyzed |-> FALSE]

\* the filename aggregate is given: its default, or the one of
\* test_markdown_report
FilenameSamples == {"document", "test.pdf"}

\* the scores of test_document_score
TestScores == <<85, 70, 45, 30, 20>>

TestClauseRisks ==
    [i \in 1..Len(TestScores) |-> RuleBasedRisk(i, TestScores[i], "legal_liability")]

\* more scores than the limits of _get_top_risks (10) and of the critical
\* actions (5) let through, in no particular order and with ties
ManyScores == <<30, 100, 86, 20, 95, 70, 90, 85, 45, 100, 31, 60, 0, 88>>

ManyClauseRisks ==
    [i \in 1..Len(ManyScores) |->
        RuleBasedRisk(i, ManyScores[i],
                      IF i % 3 = 0 THEN "termination" ELSE "legal_liability")]

\* ClauseRisks as _parse_clause_risk builds them from replies whose severity
\* is not the one of the score
RepliedClauseRisks ==
    <<[RuleBasedRisk(1, 95, "termination") EXCEPT
           !.severity = "LOW", !.ai_analyzed = TRUE],
      [RuleBasedRisk(2, 20, "termination") EXCEPT
           !.severity = "CRITICAL", !.ai_analyzed = TRUE],
      [RuleBasedRisk(3, 10, "legal_liability") EXCEPT
           !.severity = "HIGH", !.ai_analyzed = TRUE],
      [RuleBasedRisk(4, 90, "legal_liability") EXCEPT
           !.severity = "CRITICAL", !.ai_analyzed = TRUE]>>

\* The caller starts from no clause, from the clauses of the test, from a
\* long list or from replies of the external analyzer
InitDoc ==
    /\ pc_doc = "collect"
    /\ clause_risks \in {<<>>, TestClauseRisks, ManyClauseRisks, RepliedClauseRisks}
    /\ document_score = None
    /\ document_risk = None
    /\ json_out = None
    /\ markdown_out = None
    /\ recommendations_out = None
    /\ rescored_from = None
    /\ IdleSeverity /\ IdleScore /\ IdleEngine /\ IdleScan /\ IdleContext

\* clause_risks.append(risk): the caller collects one more ClauseRisk
AppendClauseRisk ==
    /\ pc_doc = "collect"
    /\ Len(clause_risks) < MaxClauses
    /\ \E score \in ScoreSamples, category \in CategorySamples :
           clause_risks' = Append(clause_risks,
                                  RuleBasedRisk(Len(clause_risks) + 1, score, category))
    /\ UNCHANGED <<pc_doc, document_score, document_risk, json_out, markdown_out,
                   recommendations_out, rescored_from>>
    /\ UNCHANGED <<vars_severity, vars_score, vars_engine, vars_scan, vars_context>>

\* risk_scorer.calculate_document_score([r.score for r in clause_risks])
CalculateDocumentScore ==
    /\ pc_doc = "collect"
    /\ document_score' = Some(calculate_document_score(Scores(clause_risks)))
    /\ pc_doc' = "scored"
    /\ UNCHANGED <<clause_risks, document_risk, json_out, markdown_out,
                   recommendations_out, rescored_from>>
    /\ UNCHANGED <<vars_severity, vars_score, vars_engine, vars_scan, vars_context>>

\* aggregator.aggregate(clause_risks, filename)
Aggregate ==
    /\ pc_doc = "collect"
    /\ IF aggregate_raises(clause_risks)
       THEN pc_doc' = "raised" /\ UNCHANGED document_risk
       ELSE /\ \E pick \in CategoryPicks(clause_risks), filename \in FilenameSamples :
                 document_risk' = Some(aggregate(clause_risks, filename, 0, None, pick))
            /\ pc_doc' = "aggregated"
    /\ UNCHANGED <<clause_risks, document_score, json_out, markdown_out,
                   recommendations_out, rescored_from>>
    /\ UNCHANGED <<vars_severity, vars_score, vars_engine, vars_scan, vars_context>>

\* aggregator.to_json(document_risk)
ToJson ==
    /\ pc_doc = "aggregated"
    /\ json_out' = Some(to_json(document_risk[1]))
    /\ pc_doc' = "exported"
    /\ UNCHANGED <<clause_risks, document_score, document_risk, markdown_out,
                   recommendations_out, rescored_from>>
    /\ UNCHANGED <<vars_severity, vars_score, vars_engine, vars_scan, vars_context>>

\* aggregator.to_markdown_report(document_risk)
ToMarkdownReport ==
    /\ pc_doc = "aggregated"
    /\ markdown_out' = Some(to_markdown_report(document_risk[1]))
    /\ pc_doc' = "exported"
    /\ UNCHANGED <<clause_risks, document_score, document_risk, json_out,
                   recommendations_out, rescored_from>>
    /\ UNCHANGED <<vars_severity, vars_score, vars_engine, vars_scan, vars_context>>

\* aggregator.generate_recommendations(document_risk)
GenerateRecommendations ==
    /\ pc_doc = "aggregated"
    /\ recommendations_out' = Some(generate_recommendations(document_risk[1]))
    /\ pc_doc' = "recommended"
    /\ UNCHANGED <<clause_risks, document_score, document_risk, json_out,
                   markdown_out, rescored_from>>
    /\ UNCHANGED <<vars_severity, vars_score, vars_engine, vars_scan, vars_context>>

\* the sampled score next above a score (the score itself at the top)
NextSample(score) ==
    LET above == {higher \in ScoreSamples : higher > score}
    IN  IF above = {} THEN score
        ELSE CHOOSE higher \in above : \A other \in above : higher <= other

\* one clause of the list is re-scored higher, the others are left alone, and
\* risk_scorer.calculate_document_score is called on the new scores
RaiseClauseScore ==
    /\ pc_doc = "scored"
    /\ Len(clause_risks) <= MaxClauses
    /\ \E i \in 1..Len(clause_risks), raised \in ScoreSamples :
           /\ raised > clause_risks[i].score
           /\ raised = NextSample(clause_risks[i].score)
           /\ clause_risks' = [clause_risks EXCEPT ![i] =
                                  [@ EXCEPT !.score = raised,
                                            !.severity = from_score(raised)]]
    /\ document_score' = Some(calculate_document_score(Scores(clause_risks')))
    /\ rescored_from' = Some([scores |-> Scores(clause_risks),
                               document_score |-> document_score[1]])
    /\ pc_doc' = "rescored"
    /\ UNCHANGED <<document_risk, json_out, markdown_out, recommendations_out>>
    /\ UNCHANGED <<vars_severity, vars_score, vars_engine, vars_scan, vars_context>>

NextDoc ==
    \/ AppendClauseRisk
    \/ CalculateDocumentScore
    \/ RaiseClauseScore
    \/ Aggregate
    \/ ToJson
    \/ ToMarkdownReport
    \/ GenerateRecommendations

SpecDoc == InitDoc /\ [][NextDoc]_vars

(***************************************************************************)
(* Claims on the document score and the aggregate                          *)
(***************************************************************************)
\* C4: for a non-empty list of clause scores in 0..100,
\* calculate_document_score is the integer nearest to 0.6 * W + 0.4 * max
\* (ties to even), within 0..100, where W is the average weighted 3.0 for a
\* score >= 85, 2.0 for >= 60, 1.0 for >= 30 and 0.5 otherwise; it lies
\* between the smallest and the largest score; for [85,70,45,30,20] it is
\* strictly between 50 and 90; the empty list gives 0.
C4_DocumentScoreFormula ==
    document_score # None =>
        LET scores == Scores(clause_risks)
            d == document_score[1]
            w2(x) == IF x >= 85 THEN 6 ELSE IF x >= 60 THEN 4
                     ELSE IF x >= 30 THEN 2 ELSE 1
            tw == SumSeq([i \in 1..Len(scores) |-> w2(scores[i])])
            ws == SumSeq([i \in 1..Len(scores) |-> w2(scores[i]) * scores[i]])
            num == 6 * ws + 4 * MaxSeq(scores) * tw
            den == 10 * tw
        IN  IF scores = <<>> THEN d = 0
            ELSE /\ d \in 0..100
                 /\ 2 * den * d - 2 * num <= den
                 /\ 2 * num - 2 * den * d <= den
                 /\ (2 * den * d - 2 * num \in {den, 0 - den}) => d % 2 = 0
                 /\ MinSeq(scores) <= d /\ d <= MaxSeq(scores)
                 /\ (scores = TestScores) => (50 < d /\ d < 90)

C4_Witness ==
    /\ document_score # None
    /\ Scores(clause_risks) = TestScores
    /\ document_score[1] = 72

\* C5: when the list holds a score m >= 86, whatever else it holds, the
\* document score is at least round(0.4 * m) and the overall level of the
\* document is never LOW.
C5_CatastrophicClauseNotDiluted ==
    \A i \in 1..Len(clause_risks) :
        clause_risks[i].score >= 86 =>
            /\ document_score # None =>
                   /\ document_score[1] >= RoundHalfEven(4 * clause_risks[i].score, 10)
                   /\ from_score(document_score[1]) # "LOW"
            /\ document_risk # None =>
                   /\ document_risk[1].risk_summary.overall_score
                          >= RoundHalfEven(4 * clause_risks[i].score, 10)
                   /\ document_risk[1].risk_summary.overall_level # "LOW"

C5_Witness ==
    /\ document_risk # None
    /\ Len(clause_risks) = MaxClauses
    /\ clause_risks[1].score = 86
    /\ \A i \in 2..Len(clause_risks) : clause_risks[i].score = 0
    /\ document_risk[1].risk_summary.overall_level # "LOW"

\* C8: aggregate of an empty clause list does not raise and returns a
\* DocumentRisk with overall_score 0, overall_level LOW, an all-zero
\* distribution, clauses_analyzed 0, empty clause_risks, top_risks, category
\* summaries and buckets, and a non-empty action plan; to_json and
\* to_markdown_report take that result and report the same.
C8_EmptyDocumentRisk ==
    (clause_risks = <<>> /\ pc_doc \in {"aggregated", "raised", "exported"}) =>
        /\ pc_doc # "raised"
        /\ document_risk # None
        /\ LET doc == document_risk[1]
           IN  /\ doc.risk_summary.overall_score = 0
               /\ doc.risk_summary.overall_level = "LOW"
               /\ doc.risk_summary.distribution =
                      [critical |-> 0, high |-> 0, medium |-> 0, low |-> 0]
               /\ doc.metadata.clauses_analyzed = 0
               /\ doc.clause_risks = <<>>
               /\ doc.top_risks = <<>>
               /\ DOMAIN doc.category_summaries = {}
               /\ doc.must_address_immediately = <<>>
               /\ doc.should_negotiate = <<>>
               /\ doc.acceptable_as_is = <<>>
               /\ doc.deal_breakers = <<>>
               /\ Len(doc.action_plan) >= 1
        /\ (pc_doc = "exported") => (json_out # None \/ markdown_out # None)
        /\ json_out # None =>
               /\ json_out[1].risk_summary.overall_score = 0
               /\ json_out[1].risk_summary.overall_level = "LOW"
               /\ json_out[1].document_metadata.clauses_analyzed = 0
               /\ Len(json_out[1].action_plan) >= 1
        /\ markdown_out # None =>
               /\ \E k \in 1..Len(markdown_out[1]) :
                      /\ markdown_out[1][k].section = "## Action Plan"
                      /\ markdown_out[1][k].entries >= 1
               /\ \A k \in 1..Len(markdown_out[1]) :
                      markdown_out[1][k].section
                          \notin {"## Critical Issues (Must Address)", "## Top Risks",
                                  "## Acceptable Terms"}

C8_Witness ==
    /\ clause_risks = <<>>
    /\ pc_doc = "exported"
    /\ markdown_out # None
    /\ document_risk[1].metadata.clauses_analyzed = 0

(***************************************************************************)
(* fast_scanner.py, ai_analyzer.py, risk_assessment_engine.py              *)
(*                                                                         *)
(* A document is [sections, blocks].  sections tells whether the text      *)
(* holds at least three numbered section headers; blocks are then the      *)
(* contents that follow the headers, and otherwise the paragraphs between  *)
(* blank lines.  A block is [chars, text, keywords, type_hints]: its       *)
(* stripped length, what the scorer reads of it, the library keywords      *)
(* that occur in it (one KeywordMatch [keyword, weight, category] per      *)
(* occurrence) and the clause types whose keywords of _infer_clause_type   *)
(* it holds.  Headers hold no keyword.                                     *)
(***************************************************************************)
\* words a section header adds to the clause text ("3. Title:")
HeaderWords == 2

\* [km.weight for km in keyword_matches], as the scorer reads them
Weights(kms) == [i \in 1..Len(kms) |-> kms[i].weight]

RECURSIVE Concat(_)
\* the sequences of s one after the other
Concat(s) == IF s = <<>> THEN <<>> ELSE Head(s) \o Concat(Tail(s))

\* [x] * n
Repeat(x, n) == [i \in 1..n |-> x]

\* the RedFlag of a structural pattern ("without exception"): weight 3.0,
\* the category _categorize_pattern_match gives it
StructuralFlag ==
    [keyword |-> "without exception", weight |-> 30, category |-> "operational"]

\* red flags from weight 2.0 on
RedFlagsFromTwo(kms, hits) ==
    Filter(kms, {i \in 1..Len(kms) : kms[i].weight >= 20}) \o Repeat(StructuralFlag, hits)

\* the RedFlags of a text: one per keyword match of weight >= 2.5, then one
\* per structural pattern match
RedFlags(kms, hits) ==
    Filter(kms, {i \in 1..Len(kms) : kms[i].weight >= 25}) \o Repeat(StructuralFlag, hits)

\* every red flag counted, whatever its weight
CriticalCountAnyFlag(red_flags) == Len(red_flags)

\* critical_count = len([rf for rf in red_flags if rf.weight >= 3.0])
CriticalCount(red_flags) ==
    Cardinality({i \in 1..Len(red_flags) : red_flags[i].weight >= 30})

\* estimated_level of scan_document; total_weight in tenths
EstimatedRiskLevel(critical_count, total_weight) ==
    IF critical_count >= 3 \/ total_weight > 500 THEN "CRITICAL"
    ELSE IF critical_count >= 1 \/ total_weight > 300 THEN "HIGH"
    ELSE IF total_weight > 150 THEN "MEDIUM"
    ELSE "LOW"

\* FastScanner.scan_document: the QuickScanResult of the whole text;
\* keyword_matches holds one match per occurrence
scan_document(doc) ==
    LET kms == Concat([i \in 1..Len(doc.blocks) |-> doc.blocks[i].keywords])
        hits == SumSeq([i \in 1..Len(doc.blocks) |-> doc.blocks[i].patterns])
        red_flags == RedFlags(kms, hits)
    IN  [total_matches |-> Len(kms),
         keyword_matches |-> kms,
         red_flags |-> red_flags,
         estimated_risk_level |->
             EstimatedRiskLevel(CriticalCount(red_flags), SumSeq(Weights(kms)))]

\* what the whole text is when it becomes the only clause
WholeText(doc) ==
    [words |-> SumSeq([i \in 1..Len(doc.blocks) |-> doc.blocks[i].text.words])
               + (IF doc.sections THEN HeaderWords * Len(doc.blocks) ELSE 0),
     phrases |-> UNION {doc.blocks[i].text.phrases : i \in 1..Len(doc.blocks)}]

\* the segments that pass the minimum length and nothing else: no
\* "full_document" clause when none passes
_extract_clauses_no_fallback(doc) ==
    LET n == Len(doc.blocks)
        kept == IF doc.sections
                THEN {i \in 1..n : doc.blocks[i].chars > 30}
                ELSE {i \in 1..n : doc.blocks[i].chars > 50}
    IN  Filter([i \in 1..n |->
                   [clause_id |-> <<IF doc.sections THEN "section" ELSE "paragraph", i>>,
                    text |-> doc.blocks[i].text,
                    keywords |-> doc.blocks[i].keywords,
                    type_hints |-> doc.blocks[i].type_hints,
                    patterns |-> doc.blocks[i].patterns]], kept)

\* RiskAssessmentEngine._extract_clauses
_extract_clauses(doc) ==
    LET n == Len(doc.blocks)
        kept == IF doc.sections
                THEN {i \in 1..n : doc.blocks[i].chars > 30}
                ELSE {i \in 1..n : doc.blocks[i].chars > 50}
        all == [i \in 1..n |->
                  [clause_id |-> <<IF doc.sections THEN "section" ELSE "paragraph", i>>,
                   text |-> IF doc.sections
                            THEN [words |-> doc.blocks[i].text.words + HeaderWords,
                                  phrases |-> doc.blocks[i].text.phrases]
                            ELSE doc.blocks[i].text,
                   keywords |-> doc.blocks[i].keywords,
                   type_hints |-> doc.blocks[i].type_hints,
                   patterns |-> doc.blocks[i].patterns]]
    IN  IF kept # {} THEN Filter(all, kept)
        ELSE <<[clause_id |-> <<"full_document", 0>>,
                text |-> WholeText(doc),
                keywords |-> scan_document(doc).keyword_matches,
                type_hints |-> Concat([i \in 1..n |-> doc.blocks[i].type_hints]),
                patterns |-> SumSeq([i \in 1..n |-> doc.blocks[i].patterns])]>>

\* a red flag of any weight taken for a critical one
HasCriticalAnyFlag(red_flags) == red_flags # <<>>

\* has_critical = any(rf.weight >= 3.0 for rf in red_flags)
HasCritical(red_flags) ==
    \E i \in 1..Len(red_flags) : red_flags[i].weight >= 30

\* FastScanner.scan_clause: the ClauseScanResult of one clause.
\* total_weight is sum(category_scores.values()): the weights of the
\* keyword matches and 3.0 per structural pattern match, in tenths
scan_clause(clause) ==
    LET kms == clause.keywords
        red_flags == RedFlags(kms, clause.patterns)
        total_weight == SumSeq(Weights(kms)) + 30 * clause.patterns
        has_critical == HasCritical(red_flags)
    IN  [keyword_matches |-> kms,
         red_flags |-> red_flags,
         total_weight |-> total_weight,
         estimated_severity |->
             IF has_critical \/ total_weight > 100
             THEN (IF has_critical THEN "CRITICAL" ELSE "HIGH")
             ELSE IF total_weight > 50 THEN "MEDIUM"
             ELSE IF total_weight > 20 THEN "MEDIUM"
             ELSE "LOW",
         needs_deep_analysis |->
             IF has_critical \/ total_weight > 100 THEN TRUE
             ELSE IF total_weight > 50 THEN TRUE
             ELSE IF total_weight > 20 THEN Len(kms) > 0
             ELSE Len(red_flags) > 0]

\* RiskAssessmentEngine._build_keyword_map, the entry of one clause: every
\* match of the document scan whose keyword occurs in the clause text
\* (<<>> when the clause has no entry)
_build_keyword_map(clause, scan) ==
    LET kms == scan.keyword_matches
    IN  Filter(kms, {i \in 1..Len(kms) :
                        \E j \in 1..Len(clause.keywords) :
                            clause.keywords[j].keyword = kms[i].keyword})

\* dict.get(key, default) on the JSON object of a reply
Get(result, key, default) == IF key \in DOMAIN result THEN result[key] ELSE default

\* str.upper() on the severity names
Upper(str) ==
    CASE str = "low" -> "LOW"
      [] str = "medium" -> "MEDIUM"
      [] str = "high" -> "HIGH"
      [] str = "critical" -> "CRITICAL"
      [] OTHER -> str

\* the category with the largest total of amounts (one per match), the
\* first one met on a tie:
\* max(category_counts.keys(), key=lambda c: category_counts[c])
TopCategory(kms, amounts) ==
    LET total == [c \in RiskCategory |->
                    SumSeq([i \in 1..Len(kms) |->
                               IF kms[i].category = c THEN amounts[i] ELSE 0])]
    IN  FirstMax(CategoryOrder(kms), total)

\* AIAnalyzer._parse_clause_risk: every field is copied from the reply or
\* defaulted; the severity is the one the reply names (MEDIUM when it names
\* none that is known)
_parse_clause_risk(clause, result, kms) ==
    [clause_id |-> clause.clause_id,
     clause_type |-> Get(result, "clause_type", Some("unknown")),
     category |-> IF Get(result, "risk_category", "") \in RiskCategory \ {"unknown"}
                  THEN result.risk_category ELSE "unknown",
     severity |-> IF Upper(Get(result, "severity", "MEDIUM")) \in SeverityLevel
                  THEN Upper(Get(result, "severity", "MEDIUM")) ELSE "MEDIUM",
     score |-> Min(100, Max(0, Get(result, "risk_score", 50))),
     confidence |-> Min(100, Max(0, Get(result, "confidence", 70))),
     red_flags |-> Get(result, "red_flags", Some(<<>>)),
     mitigating_factors |-> Get(result, "mitigating_factors", Some(<<>>)),
     ai_analyzed |-> TRUE]

\* the keywords of the matches kept by a test on the weight
Keywords(kms, kept) == LET f == Filter(kms, kept) IN [i \in 1..Len(f) |-> f[i].keyword]

\* AIAnalyzer._fallback_analysis; weights are tenths, so
\* int(total_weight * 15) is (15 * sum) \div 10
_fallback_analysis(clause, kms) ==
    LET ones == [i \in 1..Len(kms) |-> 1]
        category == IF kms # <<>> THEN TopCategory(kms, ones) ELSE "unknown"
        score == IF kms # <<>>
                 THEN Min(100, (15 * SumSeq(Weights(kms))) \div 10)
                 ELSE 30
    IN  [clause_id |-> clause.clause_id,
         clause_type |-> IF category # "unknown"
                         THEN Some(Title(IF category = "legal_liability"
                                         THEN "legal liability" ELSE category))
                         ELSE Some("General Clause"),
         category |-> category,
         severity |-> from_score(score),
         score |-> score,
         confidence |-> 40,
         red_flags |-> Some(Keywords(kms, {i \in 1..Len(kms) : kms[i].weight >= 25})),
         mitigating_factors |-> Some(<<>>),
         ai_analyzed |-> FALSE]

\* RiskAssessmentEngine._infer_clause_type
_infer_clause_type(clause, category) ==
    IF clause.type_hints # <<>> THEN clause.type_hints[1]
    ELSE IF category # "unknown" THEN category ELSE "general"

\* RiskAssessmentEngine._rule_based_clause_analysis
_rule_based_clause_analysis(clause, scan_result) ==
    LET kms == scan_result.keyword_matches
        score == calculate_score(clause.text, Weights(kms), 10, None).score
        category == IF kms # <<>> THEN TopCategory(kms, Weights(kms)) ELSE "unknown"
    IN  [clause_id |-> clause.clause_id,
         clause_type |-> Some(_infer_clause_type(clause, category)),
         category |-> category,
         severity |-> from_score(score),
         score |-> score,
         confidence |-> calculate_confidence(Weights(kms), clause.text, FALSE),
         red_flags |-> Some([i \in 1..Len(scan_result.red_flags) |->
                                scan_result.red_flags[i].keyword]),
         mitigating_factors |-> Some(<<>>),
         ai_analyzed |-> FALSE]

\* Replies of the external analyzer to one clause, as parsed JSON objects;
\* a key the reply lacks is absent, a JSON null is None
Replies ==
    [sound |->
         [risk_category |-> "termination", severity |-> "CRITICAL",
          risk_score |-> 95, confidence |-> 90,
          clause_type |-> Some("termination"),
          red_flags |-> Some(<<"irrevocable">>),
          mitigating_factors |-> Some(<<>>)],
     mislabelled |->
         [risk_category |-> "termination", severity |-> "LOW",
          risk_score |-> 95, confidence |-> 90,
          clause_type |-> Some("termination")],
     null_type |->
         [risk_category |-> "termination", severity |-> "critical",
          risk_score |-> 95, clause_type |-> None],
     unsure |->
         [risk_category |-> "termination", severity |-> "LOW",
          risk_score |-> 20, confidence |-> 5,
          clause_type |-> Some("termination")]]

\* _build_clause_analysis_prompt formats contract_value with ":,.2f" when it
\* is truthy: a text value raises before the try of analyze_clause
_build_clause_analysis_prompt_raises(ctx) == ctx.contract_value = "text"

\* AIAnalyzer.analyze_clause once the prompt is built: the call or the
\* parsing fails (outcome "failed") or the reply named by outcome is parsed
analyze_clause(clause, kms, outcome) ==
    IF outcome = "failed" THEN _fallback_analysis(clause, kms)
    ELSE _parse_clause_risk(clause, Replies[outcome], kms)

\* What one clause can become in _analyze_clauses_sequential and in
\* _analyze_clauses_parallel: [tag, outcome, risk], tag telling which path
\* built it and outcome what the external analyzer did
ClauseResults(clause, scan, ctx, use_ai) ==
    LET kms == _build_keyword_map(clause, scan)
        rule == _rule_based_clause_analysis(clause, scan_clause(clause))
    IN  IF use_ai /\ kms # <<>>
        THEN IF _build_clause_analysis_prompt_raises(ctx)
             THEN {[tag |-> "escaped", outcome |-> "raised", risk |-> rule]}
             ELSE {[tag |-> IF o = "failed" THEN "failed" ELSE "reply",
                    outcome |-> o,
                    risk |-> analyze_clause(clause, kms, o)] :
                      o \in DOMAIN Replies \cup {"failed"}}
        ELSE {[tag |-> "rule", outcome |-> "not_called", risk |-> rule]}

\* _analyze_clauses_sequential as a whole: the list its loop returns when
\* the external analyzer does did[i] for the clause of index i
_analyze_clauses_sequential(cls, scan, ctx, use_ai, did) ==
    [i \in 1..Len(cls) |->
        (CHOOSE r \in ClauseResults(cls[i], scan, ctx, use_ai) : r.outcome = did[i]).risk]

\* no clause id is found in clause_order: every key is the default
OrderKeyMissing(risk, cls) == 999

\* clause_order.get(r.clause_id, 999)
OrderKey(risk, cls) ==
    IF \E i \in 1..Len(cls) : cls[i].clause_id = risk.clause_id
    THEN (CHOOSE i \in 1..Len(cls) : cls[i].clause_id = risk.clause_id) - 1
    ELSE 999

RECURSIVE InsertByOrder(_, _, _)
InsertByOrder(r, s, cls) ==
    IF s = <<>> THEN <<r>>
    ELSE IF OrderKey(Head(s), cls) <= OrderKey(r, cls)
         THEN <<Head(s)>> \o InsertByOrder(r, Tail(s), cls)
         ELSE <<r>> \o s

\* the list as as_completed left it, the sort left out
SortByOrderSkipped(s, cls) == s

RECURSIVE SortByOrder(_, _)
\* clause_risks.sort(key=lambda r: clause_order.get(r.clause_id, 999)): stable
SortByOrder(s, cls) ==
    IF s = <<>> THEN <<>>
    ELSE InsertByOrder(s[Len(s)], SortByOrder(SubSeq(s, 1, Len(s) - 1), cls), cls)

\* pages = max(1, len(text) // 3000)
Pages(doc) ==
    Max(1, SumSeq([i \in 1..Len(doc.blocks) |-> doc.blocks[i].chars]) \div 3000)

(***************************************************************************)
(* SpecEngine: RiskAssessmentEngine.analyze_document, step by step         *)
(***************************************************************************)
\* Most blocks (section contents or paragraphs) in a sampled document
MaxBlocks == 3

\* "irrevocable": KeywordEntry of weight 3.0 in the termination category
Irrevocable == [keyword |-> "irrevocable", weight |-> 30, category |-> "termination"]

\* Blocks: too short for either segmentation; long enough for a section
\* only, with a keyword; long without keyword; long with a keyword
BlockSamples ==
    {[chars |-> 20, text |-> [words |-> 3, phrases |-> {}],
      keywords |-> <<>>, type_hints |-> <<>>, patterns |-> 0],
     [chars |-> 40, text |-> [words |-> 6, phrases |-> {"irrevocable"}],
      keywords |-> <<Irrevocable>>, type_hints |-> <<>>, patterns |-> 0],
     [chars |-> 80, text |-> [words |-> 20, phrases |-> {}],
      keywords |-> <<>>, type_hints |-> <<>>, patterns |-> 0],
     [chars |-> 80, text |-> [words |-> 20, phrases |-> {"irrevocable", "shall"}],
      keywords |-> <<Irrevocable>>, type_hints |-> <<>>, patterns |-> 0]}

\* at least three section headers make a sectioned document
Documents ==
    {[sections |-> sec, blocks |-> b] :
        sec \in BOOLEAN,
        b \in UNION {[1..n -> BlockSamples] : n \in 0..MaxBlocks}}

\* RiskAssessmentEngine(use_ai, parallel_analysis); without the analyzer the
\* run is sequential whatever parallel_analysis is
EngineSamples ==
    {[use_ai |-> FALSE, parallel_analysis |-> TRUE],
     [use_ai |-> TRUE, parallel_analysis |-> FALSE],
     [use_ai |-> TRUE, parallel_analysis |-> TRUE]}

\* AnalysisContext.contract_value: None, or a text where a number is expected
ContextSamples == {[contract_value |-> "none"], [contract_value |-> "text"]}

\* the calls on a ProgressCallback: on_start(message),
\* on_progress(current, 100, message), on_complete(message)
on_start == [call |-> "on_start", current |-> 0]
on_progress(current) == [call |-> "on_progress", current |-> current]
on_complete == [call |-> "on_complete", current |-> 0]

InitEngine ==
    /\ pc = "start"
    /\ engine \in EngineSamples
    /\ context \in ContextSamples
    /\ document \in {doc \in Documents : doc.sections => Len(doc.blocks) >= 3}
    /\ quick_scan = <<>>
    /\ clauses = <<>>
    /\ pending = {}
    /\ outcomes = <<>>
    /\ results = <<>>
    /\ summary_outcome = "none"
    /\ ai_summary = None
    /\ returned = None
    /\ analyzer_did = <<>>
    /\ progress_log = <<>>
    /\ IdleSeverity /\ IdleScore /\ IdleDoc /\ IdleScan /\ IdleContext

\* on_start and on_progress(0, ...), then Step 1: quick_scan =
\* self.fast_scanner.scan_document(text), then on_progress(10, ...)
FastScan ==
    /\ pc = "start"
    /\ quick_scan' = scan_document(document)
    /\ progress_log' = <<on_start, on_progress(0), on_progress(10)>>
    /\ pc' = "scanned"
    /\ UNCHANGED <<engine, context, document, clauses, pending, outcomes, results,
                   summary_outcome, ai_summary, returned, analyzer_did>>
    /\ UNCHANGED <<vars_severity, vars_score, vars_doc, vars_scan, vars_context>>

\* Step 2: clauses = self._extract_clauses(text)
ExtractClauses ==
    /\ pc = "scanned"
    /\ clauses' = _extract_clauses(document)
    /\ outcomes' = [i \in 1..Len(clauses') |-> "waiting"]
    /\ analyzer_did' = [i \in 1..Len(clauses') |-> "waiting"]
    /\ pc' = IF engine.use_ai /\ engine.parallel_analysis THEN "submit" ELSE "sequential"
    /\ UNCHANGED <<engine, context, document, quick_scan, pending, results,
                   summary_outcome, ai_summary, returned, progress_log>>
    /\ UNCHANGED <<vars_severity, vars_score, vars_doc, vars_scan, vars_context>>

\* _analyze_clauses_sequential: one turn of the loop
AnalyzeNextClause ==
    /\ pc = "sequential"
    /\ LET i == Len(results) + 1
       IN  /\ \E r \in ClauseResults(clauses[i], quick_scan, context, engine.use_ai) :
                  /\ results' = Append(results, r.risk)
                  /\ outcomes' = [outcomes EXCEPT ![i] = r.tag]
                  /\ analyzer_did' = [analyzer_did EXCEPT ![i] = r.outcome]
           /\ progress_log' = Append(progress_log,
                                     on_progress(10 + (80 * i) \div Len(clauses)))
           /\ pc' = IF i = Len(clauses) THEN "analyzed" ELSE "sequential"
    /\ UNCHANGED <<engine, context, document, quick_scan, clauses, pending,
                   summary_outcome, ai_summary, returned>>
    /\ UNCHANGED <<vars_severity, vars_score, vars_doc, vars_scan, vars_context>>

\* _analyze_clauses_parallel: every clause is submitted to the executor
SubmitClauses ==
    /\ pc = "submit"
    /\ pending' = 1..Len(clauses)
    /\ pc' = "as_completed"
    /\ UNCHANGED <<engine, context, document, quick_scan, clauses, outcomes, results,
                   summary_outcome, ai_summary, returned, analyzer_did, progress_log>>
    /\ UNCHANGED <<vars_severity, vars_score, vars_doc, vars_scan, vars_context>>

\* _analyze_clauses_parallel: one future completes, in any order; after the
\* last one the list is sorted back into the order of the clauses
CompleteFuture ==
    /\ pc = "as_completed"
    /\ \E i \in pending :
           /\ \E r \in ClauseResults(clauses[i], quick_scan, context, TRUE) :
                  /\ results' = IF pending = {i}
                                THEN SortByOrder(Append(results, r.risk), clauses)
                                ELSE Append(results, r.risk)
                  /\ outcomes' = [outcomes EXCEPT ![i] = r.tag]
                  /\ analyzer_did' = [analyzer_did EXCEPT ![i] = r.outcome]
           /\ progress_log' =
                  Append(progress_log,
                         on_progress(10 + (80 * (Len(results) + 1)) \div Len(clauses)))
           /\ pending' = pending \ {i}
           /\ pc' = IF pending = {i} THEN "analyzed" ELSE "as_completed"
    /\ UNCHANGED <<engine, context, document, quick_scan, clauses,
                   summary_outcome, ai_summary, returned>>
    /\ UNCHANGED <<vars_severity, vars_score, vars_doc, vars_scan, vars_context>>

\* Step 4: on_progress(90, ...), then generate_document_summary answers, falls back to
\* _fallback_summary, or raises and leaves ai_summary None
GenerateSummary ==
    /\ pc = "analyzed"
    /\ IF engine.use_ai /\ results # <<>>
       THEN /\ progress_log' = Append(progress_log, on_progress(90))
            /\ \E o \in {"reply", "fallback", "raised"} :
                   /\ summary_outcome' = o
                   /\ ai_summary' = IF o = "raised" THEN None
                                    ELSE Some({"executive_summary", "comparison_to_market"})
       ELSE UNCHANGED <<summary_outcome, ai_summary, progress_log>>
    /\ pc' = "summarized"
    /\ UNCHANGED <<engine, context, document, quick_scan, clauses, pending, outcomes,
                   results, returned, analyzer_did>>
    /\ UNCHANGED <<vars_severity, vars_score, vars_doc, vars_scan, vars_context>>

\* Step 5: on_progress(95, ...), document_risk = self.aggregator.aggregate(...),
\* on_complete, return it
AggregateResults ==
    /\ pc = "summarized"
    /\ IF aggregate_raises(results)
       THEN /\ pc' = "raised"
            /\ progress_log' = Append(progress_log, on_progress(95))
            /\ UNCHANGED returned
       ELSE /\ \E pick \in CategoryPicks(results) :
                 returned' = Some(aggregate(results, "document", Pages(document),
                                            ai_summary, pick))
            /\ progress_log' = progress_log \o <<on_progress(95), on_complete>>
            /\ pc' = "done"
    /\ UNCHANGED <<engine, context, document, quick_scan, clauses, pending, outcomes,
                   results, summary_outcome, ai_summary, analyzer_did>>
    /\ UNCHANGED <<vars_severity, vars_score, vars_doc, vars_scan, vars_context>>

NextEngine ==
    \/ FastScan
    \/ ExtractClauses
    \/ AnalyzeNextClause
    \/ SubmitClauses
    \/ CompleteFuture
    \/ GenerateSummary
    \/ AggregateResults

SpecEngine == InitEngine /\ [][NextEngine]_vars

(***************************************************************************)
(* Claims on the ClauseRisks of a run of analyze_document                  *)
(***************************************************************************)
\* C3: every ClauseRisk the engine produces, on the rule-based path, on the
\* external-analyzer path (_parse_clause_risk) and on the analyzer-fallback
\* path (_fallback_analysis), has severity = from_score(score).
C3_SeverityIsFromScore ==
    \A k \in 1..Len(results) : results[k].severity = from_score(results[k].score)

\* C9: when the external analyzer fails for a clause (inside analyze_clause,
\* or with an exception that escapes to the sequential loop or the parallel
\* worker), the ClauseRisk of that clause has ai_analyzed = false and
\* confidence <= 40, and a clause the analyzer was not asked about keeps its
\* rule-based ClauseRisk.
C9_FailedClauseIsRuleBasedLowConfidence ==
    \A i \in 1..Len(outcomes) :
        \A k \in 1..Len(results) :
            results[k].clause_id = clauses[i].clause_id =>
                /\ outcomes[i] \in {"failed", "escaped"} =>
                       /\ results[k].ai_analyzed = FALSE
                       /\ results[k].confidence <= 40
                /\ outcomes[i] = "rule" =>
                       results[k] = _rule_based_clause_analysis(clauses[i],
                                                                scan_clause(clauses[i]))

\* C10: with the analyzer absent or present, whichever clauses fail and
\* whether or not the summary call fails, analyze_document does not raise,
\* and the DocumentRisk it returns holds exactly one ClauseRisk per clause
\* of the segmenter, in their order, with clauses_analyzed = their number.
C10_ReturnsOneClauseRiskPerClause ==
    /\ pc # "raised"
    /\ pc = "done" =>
           /\ returned # None
           /\ Len(returned[1].clause_risks) = Len(clauses)
           /\ \A i \in 1..Len(clauses) :
                  returned[1].clause_risks[i].clause_id = clauses[i].clause_id
           /\ returned[1].metadata.clauses_analyzed = Len(clauses)

\* C11: whatever the order in which the futures complete and whichever of
\* them fail, _analyze_clauses_parallel returns one ClauseRisk per clause in
\* the order of the clauses: the i-th ClauseRisk carries the clause_id of
\* the i-th clause, none missing, none twice.
C11_ParallelResultsInDocumentOrder ==
    (engine.use_ai /\ engine.parallel_analysis
       /\ pc \in {"analyzed", "summarized", "done", "raised"}) =>
        /\ Len(results) = Len(clauses)
        /\ \A i \in 1..Len(clauses) : results[i].clause_id = clauses[i].clause_id

\* a parallel run over several clauses has returned, one future having
\* failed inside the analyzer and another having been answered
C11_Witness ==
    /\ engine.use_ai /\ engine.parallel_analysis
    /\ pc = "analyzed"
    /\ Len(clauses) >= 2
    /\ \E i, j \in 1..Len(clauses) : outcomes[i] = "failed" /\ outcomes[j] = "reply"
    /\ \A i \in 1..Len(clauses) : results[i].clause_id = clauses[i].clause_id

(***************************************************************************)
(* Claims on the exports of a DocumentRisk                                 *)
(***************************************************************************)
\* the top-level keys of the object to_json builds
JsonKeys ==
    {"document_metadata", "risk_summary", "executive_summary", "top_risks",
     "categories", "must_address_immediately", "should_negotiate",
     "acceptable_as_is", "deal_breakers", "overall_favorability",
     "comparison_to_market", "action_plan"}

\* C12: for every DocumentRisk, the empty one included, to_json returns an
\* object whose top-level keys are exactly the twelve of JsonKeys;
\* risk_summary.overall_score is the overall score of the DocumentRisk, and
\* the severity and the categories appear as the string values of their
\* enums.
C12_JsonShape ==
    json_out # None =>
        LET json == json_out[1]
            doc == document_risk[1]
        IN  /\ DOMAIN json = JsonKeys
            /\ json.risk_summary.overall_score = doc.risk_summary.overall_score
            /\ json.risk_summary.overall_level = doc.risk_summary.overall_level
            /\ json.risk_summary.overall_level \in SeverityLevel
            /\ DOMAIN json.categories \subseteq RiskCategory
            /\ DOMAIN json.categories =
                   {clause_risks[i].category : i \in 1..Len(clause_risks)}

\* a DocumentRisk with clauses of two categories and a top risk is exported
C12_Witness ==
    /\ pc_doc = "exported"
    /\ json_out # None
    /\ Cardinality(DOMAIN json_out[1].categories) = 2
    /\ json_out[1].top_risks # <<>>
    /\ json_out[1].risk_summary.overall_score > 0

\* the sections of the report, in the order to_markdown_report writes them
ReportSections ==
    <<"# Risk Assessment Report", "## Overall Risk", "## Executive Summary",
      "## Risk Distribution", "## Critical Issues (Must Address)", "## Top Risks",
      "## Action Plan", "## Acceptable Terms">>

\* the place of a section title in ReportSections (0 for any other title)
SectionPlace(title) ==
    IF \E k \in 1..Len(ReportSections) : ReportSections[k] = title
    THEN CHOOSE k \in 1..Len(ReportSections) : ReportSections[k] = title
    ELSE 0

\* C13: for every DocumentRisk, to_markdown_report writes its sections in
\* the order header, overall risk, executive summary, risk distribution,
\* critical issues, top risks, action plan, acceptable terms; the line
\* "# Risk Assessment Report" and the filename aggregate was given are
\* always there, and the critical-issues, top-risks and acceptable-terms
\* sections are there exactly when must_address_immediately, top_risks and
\* acceptable_as_is are non-empty.
C13_ReportSectionsInOrder ==
    markdown_out # None =>
        LET md == markdown_out[1]
            doc == document_risk[1]
            has(title) == \E k \in 1..Len(md) : md[k].section = title
        IN  /\ \A k \in 1..Len(md) : SectionPlace(md[k].section) > 0
            /\ \A j, k \in 1..Len(md) :
                   j < k => SectionPlace(md[j].section) < SectionPlace(md[k].section)
            /\ md[1].section = "# Risk Assessment Report"
            /\ md[1].text = doc.metadata.filename
            /\ doc.metadata.filename \in FilenameSamples
            /\ has("## Overall Risk") /\ has("## Executive Summary")
            /\ has("## Risk Distribution") /\ has("## Action Plan")
            /\ has("## Critical Issues (Must Address)")
                   <=> doc.must_address_immediately # <<>>
            /\ has("## Top Risks") <=> doc.top_risks # <<>>
            /\ has("## Acceptable Terms") <=> doc.acceptable_as_is # <<>>

\* the report of "test.pdf" with all eight sections
C13_Witness ==
    /\ markdown_out # None
    /\ Len(markdown_out[1]) = Len(ReportSections)
    /\ markdown_out[1][1].text = "test.pdf"
    /\ Len(clause_risks) <= MaxClauses

\* C14: every ClauseRisk the engine produces, on the rule-based path
\* (calculate_confidence), on the external-analyzer path and on the
\* analyzer-fallback path, has a confidence between 20 and 100.
C14_ConfidenceInRange ==
    \A k \in 1..Len(results) :
        results[k].confidence >= 20 /\ results[k].confidence <= 100

(***************************************************************************)
(* Claims on the aggregate of a non-empty clause list                      *)
(***************************************************************************)
\* C15: for a non-empty clause list, the favorability aggregate reports in
\* risk_summary.favorability and in DocumentRisk.overall_favorability is the
\* bucket of r = (critical + high) / total of the severity distribution:
\* heavily unfavorable when r > 0.5, slightly unfavorable when
\* 0.3 < r <= 0.5, balanced when 0.1 < r <= 0.3, favorable otherwise; the
\* two fields agree.
C15_FavorabilityFromRatio ==
    (document_risk # None /\ clause_risks # <<>>) =>
        LET doc == document_risk[1]
            dist == doc.risk_summary.distribution
            total == dist.critical + dist.high + dist.medium + dist.low
            bucket == IF 10 * (dist.critical + dist.high) > 5 * total
                          THEN "heavily_favors_other_party"
                      ELSE IF 10 * (dist.critical + dist.high) > 3 * total
                          THEN "slightly_unfavorable"
                      ELSE IF 10 * (dist.critical + dist.high) > 1 * total
                          THEN "balanced"
                      ELSE "favorable"
        IN  /\ total = Len(clause_risks)
            /\ doc.risk_summary.favorability = bucket
            /\ doc.overall_favorability = bucket

IdsAt(kept) ==
    ClauseIds(Filter(clause_risks, kept))

\* C17: for a non-empty clause list, must_address_immediately holds only
\* CRITICAL-severity clauses, at most 5 of them, the highest-scoring first,
\* with priorities 1..k; should_negotiate is exactly the ids of the
\* HIGH-severity clauses; acceptable_as_is is exactly the ids of the
\* LOW-severity clauses with score < 25; deal_breakers is exactly the ids of
\* the clauses with score >= 90.
C17_Buckets ==
    (document_risk # None /\ clause_risks # <<>>) =>
        LET doc == document_risk[1]
            must == doc.must_address_immediately
            k == Len(must)
            n == Len(clause_risks)
            critical == {j \in 1..n : clause_risks[j].severity = "CRITICAL"}
            at(i) == CHOOSE j \in 1..n :
                         clause_risks[j].clause_id = must[i].clause_reference
        IN  /\ k = Min(5, Cardinality(critical))
            /\ \A i \in 1..k :
                   /\ must[i].priority = i
                   /\ \E j \in critical :
                          clause_risks[j].clause_id = must[i].clause_reference
            /\ \A i, j \in 1..k : i < j =>
                   /\ at(i) # at(j)
                   /\ clause_risks[at(i)].score >= clause_risks[at(j)].score
            /\ \A j \in critical :
                   (\A i \in 1..k : at(i) # j) =>
                       \A i \in 1..k : clause_risks[j].score <= clause_risks[at(i)].score
            /\ doc.should_negotiate =
                   IdsAt({j \in 1..n : clause_risks[j].severity = "HIGH"})
            /\ doc.acceptable_as_is =
                   IdsAt({j \in 1..n : clause_risks[j].severity = "LOW"
                                         /\ clause_risks[j].score < 25})
            /\ doc.deal_breakers = IdsAt({j \in 1..n : clause_risks[j].score >= 90})

\* the long list is aggregated: more than five CRITICAL clauses, and no
\* bucket is empty
C17_Witness ==
    /\ document_risk # None
    /\ Cardinality({j \in 1..Len(clause_risks) :
                       clause_risks[j].severity = "CRITICAL"}) > 5
    /\ Len(document_risk[1].must_address_immediately) = 5
    /\ document_risk[1].should_negotiate # <<>>
    /\ document_risk[1].acceptable_as_is # <<>>
    /\ document_risk[1].deal_breakers # <<>>

(***************************************************************************)
(* Claims on the scores and the scans of a run of analyze_document         *)
(***************************************************************************)
\* C18: when the external analyzer supplies a risk score for a clause, the
\* score of the ClauseRisk of that clause is the blend 0.6 * external score
\* + 0.4 * contextualized rule-based score, rounded and clamped to 0..100,
\* as calculate_score computes it when given ai_score; without an external
\* score it is the contextualized rule-based score, rounded and clamped.
C18_ScoreIsBlend ==
    \A i \in 1..Len(outcomes) :
        \A k \in 1..Len(results) :
            results[k].clause_id = clauses[i].clause_id =>
                LET weights == Weights(scan_clause(clauses[i]).keyword_matches)
                    kms == _build_keyword_map(clauses[i], quick_scan)
                    rule_based(ai) == calculate_score(clauses[i].text, weights, 10, ai).score
                IN  /\ outcomes[i] = "reply" =>
                           \E o \in DOMAIN Replies :
                               /\ results[k] = analyze_clause(clauses[i], kms, o)
                               /\ results[k].score =
                                      rule_based(Some(Replies[o].risk_score))
                    /\ outcomes[i] \in {"rule", "escaped", "failed"} =>
                           results[k].score = rule_based(None)

(***************************************************************************)
(* SpecScan: FastScanner.scan_document or scan_clause on one text.  The    *)
(* text holds some occurrences of "shall indemnify" (weight 2.0), of       *)
(* "perpetual" (2.5) and of "irrevocable" (3.0) and some matches of a      *)
(* structural pattern; search_all lists the matches in the order of the    *)
(* library.                                                                *)
(***************************************************************************)
\* Most occurrences of "shall indemnify" in a sampled text
MaxOccurrences == 26

\* Most occurrences of "perpetual", and of "irrevocable"
MaxFlagged == 5

\* Most matches of the structural pattern
MaxPatternHits == 1

\* KeywordEntry("shall indemnify", 2.0) of the liability keywords
ShallIndemnify ==
    [keyword |-> "shall indemnify", weight |-> 20, category |-> "legal_liability"]

\* KeywordEntry("perpetual", 2.5) of the termination keywords
Perpetual == [keyword |-> "perpetual", weight |-> 25, category |-> "termination"]

\* the text with a, c and b occurrences of the keywords and p pattern matches
ScanText(a, b, c, p) ==
    [chars |-> 20 * (a + b + c + p),
     text |-> [words |-> 3 * (a + b + c) + 4 * p,
               phrases |-> (IF a > 0 THEN {"shall"} ELSE {})
                           \cup (IF b > 0 THEN {"perpetual"} ELSE {})
                           \cup (IF c > 0 THEN {"irrevocable"} ELSE {})],
     keywords |-> Repeat(ShallIndemnify, a) \o Repeat(Irrevocable, c)
                  \o Repeat(Perpetual, b),
     type_hints |-> <<>>,
     patterns |-> p]

ScanTexts ==
    {ScanText(a, b, c, p) : a \in 0..MaxOccurrences, b \in 0..MaxFlagged,
                            c \in 0..MaxFlagged, p \in 0..MaxPatternHits}

InitScan ==
    /\ pc_scan = "text"
    /\ scan_text \in ScanTexts
    /\ scan_out = None
    /\ IdleSeverity /\ IdleScore /\ IdleDoc /\ IdleEngine /\ IdleContext

\* scanner.scan_document(text)
ScanDocument ==
    /\ pc_scan = "text"
    /\ scan_out' = Some(scan_document([sections |-> FALSE, blocks |-> <<scan_text>>]))
    /\ pc_scan' = "document_scanned"
    /\ UNCHANGED scan_text
    /\ UNCHANGED <<vars_severity, vars_score, vars_doc, vars_engine, vars_context>>

\* scanner.scan_clause(clause_id, text)
ScanClause ==
    /\ pc_scan = "text"
    /\ scan_out' = Some(scan_clause([clause_id |-> <<"paragraph", 1>>,
                                     text |-> scan_text.text,
                                     keywords |-> scan_text.keywords,
                                     type_hints |-> scan_text.type_hints,
                                     patterns |-> scan_text.patterns]))
    /\ pc_scan' = "clause_scanned"
    /\ UNCHANGED scan_text
    /\ UNCHANGED <<vars_severity, vars_score, vars_doc, vars_engine, vars_context>>

NextScan == ScanDocument \/ ScanClause

SpecScan == InitScan /\ [][NextScan]_vars

(***************************************************************************)
(* Claims on the estimates of the fast scanner                             *)
(***************************************************************************)
\* the RedFlags the scanned text gives rise to whose weight is at least w:
\* keyword matches of that weight, and structural pattern matches (3.0)
FlagsOfWeight(w) ==
    Cardinality({i \in 1..Len(scan_text.keywords) :
                    scan_text.keywords[i].weight >= Max(w, 25)})
    + (IF w <= 30 THEN scan_text.patterns ELSE 0)

\* the total weight of the keyword matches of the scanned text, in tenths
KeywordWeight == SumSeq(Weights(scan_text.keywords))

\* C19: for every document text, scan_document's estimated_risk_level is
\* CRITICAL when there are at least 3 red flags or the total keyword weight
\* exceeds 50; otherwise HIGH when there is at least 1 red flag (any
\* RedFlag, i.e. weight >= 2.5) or the total weight exceeds 30; otherwise
\* MEDIUM when the total weight exceeds 15; otherwise LOW.
C19_EstimatedRiskLevel ==
    pc_scan = "document_scanned" =>
        scan_out[1].estimated_risk_level =
            IF FlagsOfWeight(25) >= 3 \/ KeywordWeight > 500 THEN "CRITICAL"
            ELSE IF FlagsOfWeight(25) >= 1 \/ KeywordWeight > 300 THEN "HIGH"
            ELSE IF KeywordWeight > 150 THEN "MEDIUM"
            ELSE "LOW"

\* C19 as amended: the red flags that count are those of weight >= 3.0.
\* estimated_risk_level is CRITICAL when there are at least 3 red flags of
\* weight >= 3.0 or the total keyword weight exceeds 50; otherwise HIGH
\* when there is at least 1 red flag of weight >= 3.0 or the total weight
\* exceeds 30; otherwise MEDIUM when the total weight exceeds 15; otherwise
\* LOW.
C19_EstimatedRiskLevelCriticalFlags ==
    pc_scan = "document_scanned" =>
        /\ Len(scan_out[1].red_flags) = FlagsOfWeight(25)
        /\ scan_out[1].total_matches = Len(scan_text.keywords)
        /\ scan_out[1].estimated_risk_level =
               IF FlagsOfWeight(30) >= 3 \/ KeywordWeight > 500 THEN "CRITICAL"
               ELSE IF FlagsOfWeight(30) >= 1 \/ KeywordWeight > 300 THEN "HIGH"
               ELSE IF KeywordWeight > 150 THEN "MEDIUM"
               ELSE "LOW"

\* a text whose only match is one "perpetual" has been scanned: one red
\* flag, of weight 2.5, and the level is LOW
C19_Witness ==
    /\ pc_scan = "document_scanned"
    /\ scan_text.keywords = <<Perpetual>>
    /\ scan_text.patterns = 0
    /\ Len(scan_out[1].red_flags) = 1
    /\ scan_out[1].estimated_risk_level = "LOW"

\* the total weight scan_clause decides on: the sum of the per-category
\* scores, in tenths
ClauseWeight == KeywordWeight + 30 * scan_text.patterns

\* C20: for every clause, with total weight the sum of the per-category
\* scores: if the clause has any red flag or total weight > 10, severity is
\* CRITICAL when a red flag is present and HIGH otherwise, and
\* needs_deep_analysis is true; otherwise if total weight > 5, severity is
\* MEDIUM and needs_deep_analysis is true; otherwise if total weight > 2,
\* severity is MEDIUM and needs_deep_analysis is true exactly when there is
\* a keyword match; otherwise severity is LOW and needs_deep_analysis is
\* true exactly when there is a red flag.
C20_ClauseDecision ==
    pc_scan = "clause_scanned" =>
        LET r == scan_out[1]
            red_flag == FlagsOfWeight(25) > 0
        IN  IF red_flag \/ ClauseWeight > 100
            THEN /\ r.estimated_severity = IF red_flag THEN "CRITICAL" ELSE "HIGH"
                 /\ r.needs_deep_analysis
            ELSE IF ClauseWeight > 50
            THEN r.estimated_severity = "MEDIUM" /\ r.needs_deep_analysis
            ELSE IF ClauseWeight > 20
            THEN /\ r.estimated_severity = "MEDIUM"
                 /\ r.needs_deep_analysis <=> scan_text.keywords # <<>>
            ELSE /\ r.estimated_severity = "LOW"
                 /\ r.needs_deep_analysis <=> red_flag

\* C20 as amended: the first branch is taken for a red flag of weight
\* >= 3.0, not for any red flag.  If the clause has a red flag of weight
\* >= 3.0 or total weight > 10, severity is CRITICAL when such a red flag is
\* present and HIGH otherwise, and needs_deep_analysis is true; otherwise if
\* total weight > 5, MEDIUM and true; otherwise if total weight > 2, MEDIUM
\* and needs_deep_analysis is true exactly when there is a keyword match;
\* otherwise LOW and needs_deep_analysis is true exactly when there is a
\* red flag.
C20_ClauseDecisionCriticalFlag ==
    pc_scan = "clause_scanned" =>
        LET r == scan_out[1]
            critical == FlagsOfWeight(30) > 0
        IN  /\ Len(r.red_flags) = FlagsOfWeight(25)
            /\ r.total_weight = ClauseWeight
            /\ IF critical \/ ClauseWeight > 100
               THEN /\ r.estimated_severity = IF critical THEN "CRITICAL" ELSE "HIGH"
                    /\ r.needs_deep_analysis
               ELSE IF ClauseWeight > 50
               THEN r.estimated_severity = "MEDIUM" /\ r.needs_deep_analysis
               ELSE IF ClauseWeight > 20
               THEN /\ r.estimated_severity = "MEDIUM"
                    /\ r.needs_deep_analysis <=> scan_text.keywords # <<>>
               ELSE /\ r.estimated_severity = "LOW"
                    /\ r.needs_deep_analysis <=> FlagsOfWeight(25) > 0

\* a clause with five "perpetual" has been scanned: red flags of weight 2.5
\* only, total weight 12.5, and the severity is HIGH
C20_Witness ==
    /\ pc_scan = "clause_scanned"
    /\ scan_text.keywords = Repeat(Perpetual, 5)
    /\ scan_text.patterns = 0
    /\ Len(scan_out[1].red_flags) = 5
    /\ scan_out[1].estimated_severity = "HIGH"
    /\ scan_out[1].needs_deep_analysis

(***************************************************************************)
(* risk_scorer.py: determine_context_multiplier                            *)
(***************************************************************************)
\* the three word lists, tested in this order
STANDARD_WORDS == {"standard", "typical", "normal", "common"}
UNUSUAL_WORDS == {"unusual", "uncommon", "aggressive"}
EXTREME_WORDS == {"extreme", "dangerous", "highly unfavorable"}

\* str.lower() on the words and clause types used here
Lower(str) ==
    CASE str = "Liability" -> "liability"
      [] str = "Uncommon" -> "uncommon"
      [] OTHER -> str

\* the listed words that occur in a written word as substrings:
\* `word in assessment_lower` is a substring test on the whole text
Substrings(written) ==
    CASE written = "uncommon" -> {"uncommon", "common"}
      [] written = "abnormal" -> {"normal"}
      [] OTHER -> {written}

\* any(word in assessment_lower for word in words)
AnyWordIn(words, text) ==
    \E written \in text : Substrings(Lower(written)) \cap words # {}

\* type_multipliers.get(clause_type.lower(), 1.0), in tenths
type_multipliers(ctype) ==
    CASE Lower(ctype) \in {"indemnification", "liability"} -> 12
      [] Lower(ctype) \in {"intellectual_property", "non-compete"} -> 13
      [] Lower(ctype) = "arbitration" -> 11
      [] OTHER -> 10

\* assessment: None, or Some(set of the words written in the text); the empty
\* text is falsy like None
determine_context_multiplier(assessment, ctype) ==
    IF assessment # None /\ assessment[1] # {}
    THEN IF AnyWordIn(STANDARD_WORDS, assessment[1]) THEN 5
         ELSE IF AnyWordIn(UNUSUAL_WORDS, assessment[1]) THEN 15
         ELSE IF AnyWordIn(EXTREME_WORDS, assessment[1]) THEN 20
         ELSE type_multipliers(ctype)
    ELSE type_multipliers(ctype)

(***************************************************************************)
(* SpecContext: one call of determine_context_multiplier                   *)
(***************************************************************************)
MaxWords == 2

AssessmentWords ==
    STANDARD_WORDS \cup UNUSUAL_WORDS \cup EXTREME_WORDS
        \cup {"Uncommon", "abnormal", "balanced"}

Assessments ==
    {None} \cup {Some(ws) : ws \in {t \in SUBSET AssessmentWords :
                                       Cardinality(t) <= MaxWords}}

ClauseTypeSamples ==
    {"indemnification", "liability", "Liability", "termination",
     "intellectual_property", "confidentiality", "non-compete", "arbitration",
     "warranty", "general", "payment"}

InitContext ==
    /\ pc_context = "input"
    /\ assessment_in \in Assessments
    /\ clause_type_in \in ClauseTypeSamples
    /\ multiplier_out = None
    /\ IdleSeverity /\ IdleScore /\ IdleDoc /\ IdleEngine /\ IdleScan

\* scorer.determine_context_multiplier(ai_assessment, clause_type=clause_type)
DetermineContextMultiplier ==
    /\ pc_context = "input"
    /\ multiplier_out' = Some(determine_context_multiplier(assessment_in,
                                                           clause_type_in))
    /\ pc_context' = "determined"
    /\ UNCHANGED <<assessment_in, clause_type_in>>
    /\ UNCHANGED <<vars_severity, vars_score, vars_doc, vars_engine, vars_scan>>

NextContext == DetermineContextMultiplier

SpecContext == InitContext /\ [][NextContext]_vars

\* the assessment is present and every word written in it is one of `group`
C21_Describes(group) ==
    /\ assessment_in # None
    /\ assessment_in[1] # {}
    /\ \A written \in assessment_in[1] : Lower(written) \in group

\* C21: determine_context_multiplier returns a value in 0.5..2.0; an assessment
\* describing the clause as standard gives 0.5, one describing it as unusual,
\* uncommon or aggressive gives 1.5, one describing it as extreme, dangerous
\* or highly unfavorable gives 2.0, whatever the clause type; with no
\* assessment the result is the default of the clause type (1.2
\* indemnification and liability, 1.3 intellectual_property and non-compete,
\* 1.1 arbitration, 1.0 otherwise).
C21_ContextMultiplier ==
    pc_context = "determined" =>
        LET m == multiplier_out[1]
            t == Lower(clause_type_in)
        IN  /\ m \in 5..20
            /\ C21_Describes({"standard"}) => m = 5
            /\ C21_Describes({"unusual", "uncommon", "aggressive"}) => m = 15
            /\ C21_Describes({"extreme", "dangerous", "highly unfavorable"}) => m = 20
            /\ assessment_in = None =>
                   m = IF t \in {"indemnification", "liability"} THEN 12
                       ELSE IF t \in {"intellectual_property", "non-compete"} THEN 13
                       ELSE IF t = "arbitration" THEN 11
                       ELSE 10

\* sum of the additive terms ScoringFactors stores, times Scale
C22_StoredTerms(factors) ==
    factors.base_keyword_score
    + Scale * ( factors.clause_length_modifier
              + factors.obligation_count_modifier
              + factors.qualifier_modifier
              + factors.cap_modifier
              + factors.mutual_language_modifier
              + factors.standard_term_modifier )

\* C22: for every call of calculate_score without an external score, the
\* final score equals the sum of the additive terms stored in the returned
\* ScoringFactors times the stored context_multiplier, rounded and clamped
\* to 0..100.
C22_FactorsAccountForScore ==
    (pc_score \in {"scored", "rescored"} /\ ai_score = None) =>
        /\ scored.factors.final_score = scored.score
        /\ scored.score =
               ClampScore(RoundHalfEven(C22_StoredTerms(scored.factors)
                                            * scored.factors.context_multiplier,
                                        10 * Scale))

\* place of an action plan entry in the template
C23_Place(entry) ==
    CASE entry.item = "1. Address critical issue(s) immediately" -> 1
      [] entry.item = "2. Negotiate high-risk clause(s) before signing" -> 2
      [] entry.item = "3. Review all clauses of the category for balance" -> 3
      [] entry.item = "4. Have legal counsel review before signing" -> 4
      [] entry.item = "5. Document any agreed changes in writing" -> 5
      [] OTHER -> 0

\* C23: for every non-empty clause list the action plan of aggregate has 1 to
\* 5 entries in template order and contains both the step "have legal
\* counsel review before signing" and the step "document any agreed changes
\* in writing".
C23_ActionPlan ==
    (pc_doc = "aggregated" /\ clause_risks # <<>>) =>
        LET plan == document_risk[1].action_plan
        IN  /\ Len(plan) \in 1..5
            /\ \A i \in 1..Len(plan) : C23_Place(plan[i]) \in 1..5
            /\ \A i \in 1..(Len(plan) - 1) :
                   C23_Place(plan[i]) <= C23_Place(plan[i + 1])
            /\ \E i \in 1..Len(plan) : C23_Place(plan[i]) = 4
            /\ \E i \in 1..Len(plan) : C23_Place(plan[i]) = 5

\* the score of the clause an item refers to
C25_ScoreOf(clause_id) ==
    LET i == CHOOSE j \in 1..Len(clause_risks) : clause_risks[j].clause_id = clause_id
    IN  clause_risks[i].score

\* C25: every clause in top_risks, and every clause _generate_action_items
\* or generate_recommendations emits an item for, has a score that from_score
\* maps to MEDIUM, HIGH or CRITICAL, never to LOW.
C25_OnlyMediumOrHigherListed ==
    (pc_doc \in {"aggregated", "exported", "recommended"}) =>
        LET top == document_risk[1].top_risks
            items == _generate_action_items(clause_risks)
        IN  /\ \A i \in 1..Len(top) : from_score(top[i].score) # "LOW"
            /\ \A i \in 1..Len(items) :
                   from_score(C25_ScoreOf(items[i].clause_reference)) # "LOW"
            /\ recommendations_out # None =>
                   \A i \in 1..Len(recommendations_out[1]) :
                       from_score(C25_ScoreOf(recommendations_out[1][i].clause_reference))
                           # "LOW"

\* the weight bracket of a score: below 30, 30..59, 60..84, 85 and above
C26_Bracket(score) ==
    IF score >= 85 THEN 4 ELSE IF score >= 60 THEN 3 ELSE IF score >= 30 THEN 2 ELSE 1

\* the raised score is in the bracket it was in
C26_SameBracket ==
    \A i \in 1..Len(clause_risks) :
        C26_Bracket(clause_risks[i].score) = C26_Bracket(rescored_from[1].scores[i])

\* C26 as stated: calculate_document_score is monotone: raising the score of
\* one clause and leaving the others unchanged never lowers the document
\* score, also when the raised score crosses a bracket boundary (30, 60, 85).
C26_DocumentScoreMonotone ==
    pc_doc = "rescored" => document_score[1] >= rescored_from[1].document_score

\* C26 amended: raising the score of one clause and leaving the others
\* unchanged never lowers the document score as long as the raised score
\* stays in its weight bracket (below 30, 30..59, 60..84, 85..100).
C26_MonotoneWithinBracket ==
    (pc_doc = "rescored" /\ C26_SameBracket) =>
        document_score[1] >= rescored_from[1].document_score

\* a clause of a list of three was raised from 30 to 45, inside its bracket,
\* and the document score went up
C26_Witness ==
    /\ pc_doc = "rescored"
    /\ Len(clause_risks) = 3
    /\ C26_SameBracket
    /\ \E i \in 1..3 : /\ rescored_from[1].scores[i] = 30
                       /\ clause_risks[i].score = 45
    /\ document_score[1] > rescored_from[1].document_score

\* C27: calculate_score is monotone in the context multiplier: for the same
\* text, the same keyword matches and the same ai_score (present or absent),
\* a larger context_multiplier never yields a lower final score, also when
\* the sum of the additive terms is negative.
C27_MonotoneInMultiplier ==
    (pc_score = "rescored" /\ appended = "multiplier") =>
        scored.score >= prior.score

\* C28: the result of scan_clause has needs_deep_analysis = true exactly
\* when estimated_severity is not LOW; a clause estimated LOW has no red flag
\* and is not flagged for deep analysis.
C28_DeepAnalysisIffNotLow ==
    pc_scan = "clause_scanned" =>
        LET r == scan_out[1]
        IN  /\ r.needs_deep_analysis <=> r.estimated_severity # "LOW"
            /\ r.estimated_severity = "LOW" =>
                   r.red_flags = <<>> /\ ~r.needs_deep_analysis

\* a clause with one "shall indemnify" (weight 2.0) has been scanned: it has
\* a keyword match, it is LOW, it has no red flag and needs no deep analysis
C28_Witness ==
    /\ pc_scan = "clause_scanned"
    /\ scan_text.keywords = <<ShallIndemnify>>
    /\ scan_text.patterns = 0
    /\ scan_out[1].estimated_severity = "LOW"
    /\ scan_out[1].red_flags = <<>>
    /\ ~scan_out[1].needs_deep_analysis

\* the segments of the document that pass the minimum length: sections of
\* more than 30 characters with at least 3 headers, else paragraphs of more
\* than 50 characters
C24_Candidates ==
    {i \in 1..Len(document.blocks) :
        document.blocks[i].chars > (IF document.sections THEN 30 ELSE 50)}

\* C24: for every document text, the empty one included, _extract_clauses
\* returns a non-empty list of clauses with pairwise distinct ids in document
\* order: the sections (at least 3 headers) or else the paragraphs that pass
\* the minimum length, and when none passes exactly one clause
\* "full_document" holding the entire text.
C24_ExtractedClauses ==
    (pc \notin {"start", "scanned"}) =>
        /\ clauses # <<>>
        /\ \A i, j \in 1..Len(clauses) :
               i # j => clauses[i].clause_id # clauses[j].clause_id
        /\ IF C24_Candidates # {}
           THEN /\ {clauses[i].clause_id : i \in 1..Len(clauses)}
                       = {<<IF document.sections THEN "section" ELSE "paragraph", i>> :
                              i \in C24_Candidates}
                /\ \A i, j \in 1..Len(clauses) :
                       i < j => clauses[i].clause_id[2] < clauses[j].clause_id[2]
           ELSE /\ Len(clauses) = 1
                /\ clauses[1].clause_id = <<"full_document", 0>>
                /\ clauses[1].text = WholeText(document)

\* the clauses of a text of three paragraphs, each too short, have been
\* extracted: one clause "full_document" with the words of all three
C24_Witness ==
    /\ pc \notin {"start", "scanned"}
    /\ ~document.sections
    /\ Len(document.blocks) = 3
    /\ C24_Candidates = {}
    /\ Len(clauses) = 1
    /\ clauses[1].clause_id = <<"full_document", 0>>
    /\ clauses[1].text.words >= 9

\* C29: for the same clauses, the same quick scan and an external analyzer
\* that does the same for each clause, _analyze_clauses_parallel returns,
\* whatever the order in which the workers complete, the list
\* _analyze_clauses_sequential returns: same order, ids, scores, severities,
\* confidence and ai_analyzed flags.
C29_ParallelEqualsSequential ==
    (pc \in {"analyzed", "summarized", "done", "raised"}) =>
        /\ Len(results) = Len(clauses)
        /\ \A i \in 1..Len(results) : results[i].clause_id = clauses[i].clause_id
        /\ results = _analyze_clauses_sequential(clauses, quick_scan, context,
                                                 engine.use_ai, analyzer_did)

\* a parallel run over three clauses has been analyzed: the analyzer failed
\* on the first, was not called for the second, and replied for the third
C29_Witness ==
    /\ pc = "analyzed"
    /\ engine.use_ai /\ engine.parallel_analysis
    /\ Len(clauses) = 3
    /\ analyzer_did = <<"failed", "not_called", "sound">>
    /\ ~results[1].ai_analyzed /\ results[3].ai_analyzed
    /\ results[1].score # results[3].score

\* the positions in the log of the calls of one callback
C30_Calls(name) ==
    {i \in 1..Len(progress_log) : progress_log[i].call = name}

\* the progress values reported, in order
C30_Values ==
    LET reported == Filter(progress_log, C30_Calls("on_progress"))
    IN  [i \in 1..Len(reported) |-> reported[i].current]

\* C30: during one analyze_document run with a progress callback, on_start
\* is called exactly once, before any on_progress; the progress values are
\* non-decreasing and within 0..100; on_complete is called after every
\* on_progress, and once the run is over it has been called exactly once and
\* the values reported are 0, 10, then 10 + floor(80 * k / n) for the clauses
\* k = 1..n, then 90 (when a summary is generated) and 95, on the sequential
\* path and for every completion order of the parallel path.
C30_ProgressCallbacks ==
    LET n == Len(clauses)
        perClause == [k \in 1..n |-> 10 + (80 * k) \div n]
    IN  /\ pc # "start" => C30_Calls("on_start") = {1}
        /\ \A i \in C30_Calls("on_progress") : i > 1
        /\ \A i \in 1..Len(C30_Values) : C30_Values[i] \in 0..100
        /\ \A i, j \in 1..Len(C30_Values) : i < j => C30_Values[i] <= C30_Values[j]
        /\ \A i \in C30_Calls("on_complete") : i = Len(progress_log)
        /\ pc \in {"done", "raised"} =>
               /\ Cardinality(C30_Calls("on_complete")) = 1
               /\ C30_Values \in {<<0, 10>> \o perClause \o <<90, 95>>,
                                  <<0, 10>> \o perClause \o <<95>>}

====
